---- MODULE Spec2Model ----
(***************************************************************************)
(* TPC-H query programs over Arrow tables (query1/4/6/9/12 and their RVV   *)
(* variants): the Decimal128 decoder, the per-row scan / filter / join /   *)
(* group-by loops and the finalize step, as state machines.                *)
(*                                                                         *)
(* Numbers.  A 64-bit word is a sequence of 64 bits, least significant     *)
(* first; a double whose value is an integer is a sign and a magnitude     *)
(* held as a bit sequence with at most MantBits significant bits; the      *)
(* decoded values the queries compute with are exact rationals <<n, d>>.   *)
(***************************************************************************)
EXTENDS Integers, Sequences, FiniteSets, TLC

VARIABLES dec_pc, dec_raw, dec_scale, dec_out

\* query9: the join indices, the lineitem scan and the accumulator
VARIABLES q9_pc, q9_types, green_parts, nation_map, supplier_nation_map,
          partsupp_cost_map, order_year_map, profit_by_nation_year,
          q9_rows_processed, q9_rows_qualified, q9_chunk_idx, q9_scales,
          q9_row, q9_applied, q9_results

\* query1: the chunk loop over lineitem, the groups and the sorted result
VARIABLES q1_pc, q1_types, q1_scales, q1_chunk_idx, groups, q1_rows_processed,
          rows_accepted, q1_row, sorted_results, q1_status

\* rvv_query1: the filtered table, the float arrays and the groups of row indices
VARIABLES rvv1_pc, rvv1_types, rvv1_table, filtered_table, rvv1_i, price_data,
          discount_data, tax_data, quantity_data, disc_price_data, charge_data,
          rvv1_groups, rvv1_out

\* rvv_query4: the two tables, the filtered orders, the bit mask of late rows,
\* the set of late order keys and the counts by priority
VARIABLES rvv4_pc, rvv4_orders, rvv4_lineitem, filtered_orders, rvv4_i,
          late_delivery_mask, late_order_keys, priority_counts

\* query12: the orders table, the priority index built from it, the counts by
\* ship mode and the sorted result
VARIABLES q12_pc, q12_orders, order_priorities, results_by_shipmode,
          q12_rows_processed, q12_rows_qualified, q12_chunk_idx, q12_row, q12_results
VARIABLES bp_pc, bp_price, bp_discount, bp_quantity, bp_supplycost,
          bp_disc_price, bp_supply_cost, bp_profit, bp_i, bp_vl
VARIABLES red_pc, red_price, red_discount, v_sum, red_i, red_vl, red_result
VARIABLES q4_pc, q4_lineitem_file, q4_orders_file, q4_i,
          qualifying_orderkeys, q4_priority_counts, q4_rows_scanned,
          q4_sorted_results, q4_exit
VARIABLES q6_pc, q6_types, q6_scales, q6_chunk_idx, total_revenue,
          q6_rows_processed, q6_rows_qualified, q6_row, q6_decodes
VARIABLES b9_pc, b9_chunk_idx, b9_num_rows, b9_i, b9_batch,
          nation_year_indices, b9_profit, b9_rows_processed, b9_rows_qualified
VARIABLES date_pc, date_str, utc_offset, date_out
VARIABLES sm_pc, sm_n, sm_vlmax, sm_i, sm_vl, sm_loads, sm_stores
VARIABLES mk_pc, mk_kernel, mk_shipdate, mk_commitdate, mk_receiptdate,
          mk_results, mk_i, mk_vl

decVars == <<dec_pc, dec_raw, dec_scale, dec_out>>
q9Vars == <<q9_pc, q9_types, green_parts, nation_map, supplier_nation_map,
            partsupp_cost_map, order_year_map, profit_by_nation_year,
            q9_rows_processed, q9_rows_qualified, q9_chunk_idx, q9_scales,
            q9_row, q9_applied, q9_results>>
q1Vars == <<q1_pc, q1_types, q1_scales, q1_chunk_idx, groups, q1_rows_processed,
           rows_accepted, q1_row, sorted_results, q1_status>>
rvv1Vars == <<rvv1_pc, rvv1_types, rvv1_table, filtered_table, rvv1_i, price_data,
             discount_data, tax_data, quantity_data, disc_price_data, charge_data,
             rvv1_groups, rvv1_out>>
rvv4Vars == <<rvv4_pc, rvv4_orders, rvv4_lineitem, filtered_orders, rvv4_i,
             late_delivery_mask, late_order_keys, priority_counts>>
q12Vars == <<q12_pc, q12_orders, order_priorities, results_by_shipmode,
            q12_rows_processed, q12_rows_qualified, q12_chunk_idx, q12_row,
            q12_results>>
bpVars == <<bp_pc, bp_price, bp_discount, bp_quantity, bp_supplycost,
          bp_disc_price, bp_supply_cost, bp_profit, bp_i, bp_vl>>
redVars == <<red_pc, red_price, red_discount, v_sum, red_i, red_vl,
          red_result>>
q4Vars == <<q4_pc, q4_lineitem_file, q4_orders_file, q4_i,
          qualifying_orderkeys, q4_priority_counts, q4_rows_scanned,
          q4_sorted_results, q4_exit>>
q6Vars == <<q6_pc, q6_types, q6_scales, q6_chunk_idx, total_revenue,
          q6_rows_processed, q6_rows_qualified, q6_row, q6_decodes>>
b9Vars == <<b9_pc, b9_chunk_idx, b9_num_rows, b9_i, b9_batch,
          nation_year_indices, b9_profit, b9_rows_processed,
          b9_rows_qualified>>
dateVars == <<date_pc, date_str, utc_offset, date_out>>
smVars == <<sm_pc, sm_n, sm_vlmax, sm_i, sm_vl, sm_loads, sm_stores>>
mkVars == <<mk_pc, mk_kernel, mk_shipdate, mk_commitdate, mk_receiptdate,
          mk_results, mk_i, mk_vl>>
vars == <<decVars, q9Vars, q1Vars, rvv1Vars, rvv4Vars, q12Vars, bpVars,
          redVars, q4Vars, q6Vars, b9Vars, dateVars, smVars, mkVars>>

\* what each program leaves alone: the variables of the other programs
decOthers == <<q9Vars, q1Vars, rvv1Vars, rvv4Vars, q12Vars, bpVars, redVars,
          q4Vars, q6Vars, b9Vars, dateVars, smVars, mkVars>>
q9Others == <<decVars, q1Vars, rvv1Vars, rvv4Vars, q12Vars, bpVars, redVars,
          q4Vars, q6Vars, b9Vars, dateVars, smVars, mkVars>>
q1Others == <<decVars, q9Vars, rvv1Vars, rvv4Vars, q12Vars, bpVars, redVars,
          q4Vars, q6Vars, b9Vars, dateVars, smVars, mkVars>>
rvv1Others == <<decVars, q9Vars, q1Vars, rvv4Vars, q12Vars, bpVars, redVars,
          q4Vars, q6Vars, b9Vars, dateVars, smVars, mkVars>>
rvv4Others == <<decVars, q9Vars, q1Vars, rvv1Vars, q12Vars, bpVars, redVars,
          q4Vars, q6Vars, b9Vars, dateVars, smVars, mkVars>>
q12Others == <<decVars, q9Vars, q1Vars, rvv1Vars, rvv4Vars, bpVars, redVars,
          q4Vars, q6Vars, b9Vars, dateVars, smVars, mkVars>>
bpOthers == <<decVars, q9Vars, q1Vars, rvv1Vars, rvv4Vars, q12Vars, redVars,
          q4Vars, q6Vars, b9Vars, dateVars, smVars, mkVars>>
redOthers == <<decVars, q9Vars, q1Vars, rvv1Vars, rvv4Vars, q12Vars, bpVars,
          q4Vars, q6Vars, b9Vars, dateVars, smVars, mkVars>>
q4Others == <<decVars, q9Vars, q1Vars, rvv1Vars, rvv4Vars, q12Vars, bpVars,
          redVars, q6Vars, b9Vars, dateVars, smVars, mkVars>>
q6Others == <<decVars, q9Vars, q1Vars, rvv1Vars, rvv4Vars, q12Vars, bpVars,
          redVars, q4Vars, b9Vars, dateVars, smVars, mkVars>>
b9Others == <<decVars, q9Vars, q1Vars, rvv1Vars, rvv4Vars, q12Vars, bpVars,
          redVars, q4Vars, q6Vars, dateVars, smVars, mkVars>>
dateOthers == <<decVars, q9Vars, q1Vars, rvv1Vars, rvv4Vars, q12Vars, bpVars,
          redVars, q4Vars, q6Vars, b9Vars, smVars, mkVars>>
smOthers == <<decVars, q9Vars, q1Vars, rvv1Vars, rvv4Vars, q12Vars, bpVars,
          redVars, q4Vars, q6Vars, b9Vars, dateVars, mkVars>>
mkOthers == <<decVars, q9Vars, q1Vars, rvv1Vars, rvv4Vars, q12Vars, bpVars,
          redVars, q4Vars, q6Vars, b9Vars, dateVars, smVars>>

(***************************************************************************)
(* Bounds of the model.                                                    *)
(***************************************************************************)
MaxRaw == 110
MaxScale == 2
MaxLineRows == 3
MaxChunks == 2

(***************************************************************************)
(* Widths fixed by the program's types.                                    *)
(***************************************************************************)
WordBits == 64
MantBits == 53
Decimal128Bytes == 16

Max(a, b) == IF a >= b THEN a ELSE b
Abs(a) == IF a < 0 THEN 0 - a ELSE a

(***************************************************************************)
(* Bit sequences, least significant bit first.                             *)
(***************************************************************************)
Zeros(k) == [i \in 1..k |-> 0]

Bit(b, i) == IF i <= Len(b) THEN b[i] ELSE 0

RECURSIVE NatBits(_)
NatBits(n) == IF n = 0 THEN <<>> ELSE <<n % 2>> \o NatBits(n \div 2)

RECURSIVE Trim(_)
Trim(b) ==
    IF b = <<>> THEN <<>>
    ELSE IF b[Len(b)] = 0 THEN Trim(SubSeq(b, 1, Len(b) - 1)) ELSE b

RECURSIVE AddFrom(_, _, _, _, _)
AddFrom(a, b, i, n, c) ==
    IF i > n THEN (IF c = 1 THEN <<1>> ELSE <<>>)
    ELSE LET s == Bit(a, i) + Bit(b, i) + c
         IN  <<s % 2>> \o AddFrom(a, b, i + 1, n, s \div 2)

AddMag(a, b) == Trim(AddFrom(a, b, 1, Max(Len(a), Len(b)), 0))

RECURSIVE SubFrom(_, _, _, _, _)
SubFrom(a, b, i, n, br) ==
    IF i > n THEN <<>>
    ELSE LET s == Bit(a, i) - Bit(b, i) - br
         IN  <<s % 2>> \o SubFrom(a, b, i + 1, n, IF s < 0 THEN 1 ELSE 0)

\* a - b for magnitudes with a >= b
SubMag(a, b) == Trim(SubFrom(a, b, 1, Len(a), 0))

RECURSIVE GeqFrom(_, _, _)
GeqFrom(a, b, i) ==
    IF i = 0 THEN TRUE
    ELSE IF Bit(a, i) # Bit(b, i) THEN Bit(a, i) > Bit(b, i)
    ELSE GeqFrom(a, b, i - 1)

\* a >= b for trimmed magnitudes
GeqMag(a, b) ==
    IF Len(a) # Len(b) THEN Len(a) > Len(b) ELSE GeqFrom(a, b, Len(a))

(***************************************************************************)
(* The 16 bytes of an Arrow Decimal128 slot: the two's complement of r,    *)
(* little-endian.                                                          *)
(***************************************************************************)
RECURSIVE TwosComplementBytes(_, _)
TwosComplementBytes(r, n) ==
    IF n = 0 THEN <<>>
    ELSE <<r % 256>> \o TwosComplementBytes(r \div 256, n - 1)

RECURSIVE ByteToBits(_, _)
ByteToBits(v, n) ==
    IF n = 0 THEN <<>> ELSE <<v % 2>> \o ByteToBits(v \div 2, n - 1)

RECURSIVE BytesToBits(_)
BytesToBits(bytes) ==
    IF bytes = <<>> THEN <<>>
    ELSE ByteToBits(Head(bytes), 8) \o BytesToBits(Tail(bytes))

\* memcpy(&word, ptr + off, sizeof(int64_t)) on a little-endian machine
MemcpyWord(bytes, off) == BytesToBits(SubSeq(bytes, off + 1, off + WordBits \div 8))

(***************************************************************************)
(* Doubles with integer value: [neg, mag], mag trimmed.                    *)
(***************************************************************************)
DZero == [neg |-> FALSE, mag |-> <<>>]

\* round a magnitude to MantBits significant bits, ties to even
RoundToDouble(m) ==
    LET t == Trim(m) IN
    IF Len(t) <= MantBits THEN t
    ELSE LET sh     == Len(t) - MantBits
             kept   == SubSeq(t, sh + 1, Len(t))
             half   == t[sh] = 1
             sticky == \E i \in 1..(sh - 1) : t[i] = 1
             up     == half /\ (sticky \/ kept[1] = 1)
         IN  Zeros(sh) \o (IF up THEN AddMag(kept, <<1>>) ELSE kept)

\* static_cast<double>(uint64_t)
UInt64ToDouble(w) == [neg |-> FALSE, mag |-> RoundToDouble(w)]

\* static_cast<double>(int64_t)
Int64ToDouble(w) ==
    IF w[WordBits] = 0 THEN [neg |-> FALSE, mag |-> RoundToDouble(w)]
    ELSE LET inv == [i \in 1..WordBits |-> 1 - w[i]]
         IN  [neg |-> TRUE, mag |-> RoundToDouble(AddMag(inv, <<1>>))]

\* d * std::pow(2.0, k): exact
DoubleMulPow2(d, k) ==
    IF d.mag = <<>> THEN DZero ELSE [neg |-> d.neg, mag |-> Zeros(k) \o d.mag]

\* a + b, correctly rounded
DoubleAdd(a, b) ==
    IF a.neg = b.neg
    THEN LET s == RoundToDouble(AddMag(a.mag, b.mag))
         IN  IF s = <<>> THEN DZero ELSE [neg |-> a.neg, mag |-> s]
    ELSE IF a.mag = b.mag THEN DZero
    ELSE IF GeqMag(a.mag, b.mag)
         THEN [neg |-> a.neg, mag |-> RoundToDouble(SubMag(a.mag, b.mag))]
         ELSE [neg |-> b.neg, mag |-> RoundToDouble(SubMag(b.mag, a.mag))]

\* the double equal to the integer r
DoubleOfInt(r) == [neg |-> r < 0 /\ TRUE, mag |-> NatBits(Abs(r))]

(***************************************************************************)
(* decimal128_bytes_to_double: the value returned is raw / 10^scale, kept  *)
(* as the pair of the double raw_value and the scale.                      *)
(***************************************************************************)
decimal128_bytes_to_double(raw_value_ptr, scale) ==
    LET low_bits  == MemcpyWord(raw_value_ptr, 0)
        high_bits == MemcpyWord(raw_value_ptr, WordBits \div 8)
        raw_value == DoubleAdd(DoubleMulPow2(Int64ToDouble(high_bits), WordBits),
                               UInt64ToDouble(low_bits))
    IN  [raw |-> raw_value, scale |-> scale]

(***************************************************************************)
(* Exact rationals <<n, d>>, d > 0, in lowest terms: the values of the     *)
(* doubles the queries compute with (rounding of the arithmetic on them is *)
(* not modelled; the rounding inside the decoder is).                      *)
(***************************************************************************)
RECURSIVE GCD(_, _)
GCD(a, b) == IF b = 0 THEN a ELSE GCD(b, a % b)

Norm(n, d) ==
    IF n = 0 THEN <<0, 1>>
    ELSE LET g == GCD(Abs(n), d) IN <<n \div g, d \div g>>

RInt(n) == <<n, 1>>
RAdd(a, b) == Norm(a[1] * b[2] + b[1] * a[2], a[2] * b[2])
RSub(a, b) == Norm(a[1] * b[2] - b[1] * a[2], a[2] * b[2])
RMul(a, b) == Norm(a[1] * b[1], a[2] * b[2])
RDivInt(a, k) == Norm(a[1], a[2] * k)
RLt(a, b) == a[1] * b[2] < b[1] * a[2]
RLeq(a, b) == a[1] * b[2] <= b[1] * a[2]

RECURSIVE Pow10(_)
Pow10(s) == IF s = 0 THEN 1 ELSE 10 * Pow10(s - 1)

RECURSIVE BitsToNat(_)
BitsToNat(b) == IF b = <<>> THEN 0 ELSE Head(b) + 2 * BitsToNat(Tail(b))

\* the rational value of a decoder result
DecodedValue(out) ==
    LET m == BitsToNat(out.raw.mag)
    IN  Norm(IF out.raw.neg THEN 0 - m ELSE m, Pow10(out.scale))

(***************************************************************************)
(* std::map as a function on the keys present.                             *)
(***************************************************************************)
EmptyMap == [k \in {} |-> 0]

MapPut(m, key, v) == [k \in DOMAIN m \cup {key} |-> IF k = key THEN v ELSE m[k]]

\* m[key] of std::map: a missing key is inserted with the default value
MapIndex(m, key, dflt) == IF key \in DOMAIN m THEN m ELSE MapPut(m, key, dflt)

(***************************************************************************)
(* Column types and the scale a chunk loop derives from them.              *)
(***************************************************************************)
DefaultScale == 2

Decimal128Type(s) == [id |-> "DECIMAL128", scale |-> s]
DoubleType == [id |-> "DOUBLE", scale |-> 0]

\* int32_t x_scale = 2; if (chunk->type()->id() == DECIMAL128) x_scale = type.scale();
ChunkScale(type) == IF type.id = "DECIMAL128" THEN type.scale ELSE DefaultScale

\* the raw slot values the tables of the model hold, decoded once
SlotValues == {0, 4, 5, 6, 7, 8, 50, 70, 100, 200, 1000, 2000, 2400, 2500, 12000,
               100000}
SlotScales == 0..3

ScalarDecoded ==
    [r \in SlotValues, s \in SlotScales |->
        DecodedValue(decimal128_bytes_to_double(
                         TwosComplementBytes(r, Decimal128Bytes), s))]

(***************************************************************************)
(* The decoder applied to one slot.                                        *)
(***************************************************************************)
RawInputs == (0 - MaxRaw)..MaxRaw
DecScales == 0..MaxScale

DecInit ==
    /\ dec_pc = "idle"
    /\ dec_raw = 0
    /\ dec_scale = 0
    /\ dec_out = [raw |-> DZero, scale |-> 0]

Decode ==
    /\ dec_pc = "idle"
    /\ \E r \in RawInputs, s \in DecScales :
          /\ dec_raw' = r
          /\ dec_scale' = s
          /\ dec_out' = decimal128_bytes_to_double(
                            TwosComplementBytes(r, Decimal128Bytes), s)
    /\ dec_pc' = "done"
    /\ UNCHANGED decOthers

DecNext == Decode

(***************************************************************************)
(* query9: part, nation, supplier, partsupp and orders build the join      *)
(* indices; the lineitem chunks are then probed row by row.                *)
(***************************************************************************)
RECURSIVE Flatten(_)
Flatten(chunks) ==
    IF chunks = <<>> THEN <<>> ELSE Head(chunks) \o Flatten(Tail(chunks))

RECURSIVE FoldRows(_, _, _)
FoldRows(Step(_, _), acc, rows) ==
    IF rows = <<>> THEN acc ELSE FoldRows(Step, Step(acc, Head(rows)), Tail(rows))

\* std::string::find(substr) != npos, strings as character sequences
contains_substring(str, substr) ==
    \E i \in 0..(Len(str) - Len(substr)) : SubSeq(str, i + 1, i + Len(substr)) = substr

\* days since 1970-01-01 of the dates the tables hold
DaysInYear(y) == IF y % 4 = 0 /\ (y % 100 # 0 \/ y % 400 = 0) THEN 366 ELSE 365

RECURSIVE YearFrom(_, _)
YearFrom(days, y) ==
    IF days < DaysInYear(y) THEN y ELSE YearFrom(days - DaysInYear(y), y + 1)

\* gmtime(days * 86400)->tm_year + 1900, for days >= 0
days_to_year(days) == YearFrom(days, 1970)

(***************************************************************************)
(* date_string_to_days: std::get_time reads the fields of a broken-down     *)
(* time, std::mktime takes them as local time and gives the seconds since   *)
(* the epoch, and the division by 86400 truncates.  utc_offset is the       *)
(* number of seconds the local standard time is ahead of UTC.               *)
(***************************************************************************)
DateStrings ==
    { <<"1", "9", "7", "0", "-", "0", "1", "-", "0", "1">>,
      <<"1", "9", "9", "3", "-", "0", "7", "-", "0", "1">>,
      <<"1", "9", "9", "3", "-", "1", "0", "-", "0", "1">>,
      <<"1", "9", "9", "4", "-", "0", "1", "-", "0", "1">>,
      <<"1", "9", "9", "5", "-", "0", "1", "-", "0", "1">>,
      <<"1", "9", "9", "6", "-", "0", "3", "-", "0", "1">>,
      <<"1", "9", "9", "8", "-", "0", "9", "-", "0", "2">> }

\* whole and half hours from UTC-12 to UTC+14
UtcOffsets == { h * 1800 : h \in (0 - 24)..28 }

DigitValue(c) ==
    CHOOSE v \in 0..9 : <<"0", "1", "2", "3", "4", "5", "6", "7", "8", "9">>[v + 1] = c

RECURSIVE ParseDigits(_, _)
ParseDigits(str, acc) ==
    IF str = <<>> THEN acc
    ELSE ParseDigits(Tail(str), 10 * acc + DigitValue(Head(str)))

\* std::get_time(&tm, "%Y-%m-%d")
get_time(str) ==
    [tm_year |-> ParseDigits(SubSeq(str, 1, 4), 0) - 1900,
     tm_mon  |-> ParseDigits(SubSeq(str, 6, 7), 0) - 1,
     tm_mday |-> ParseDigits(SubSeq(str, 9, 10), 0)]

DaysInMonth(y, m) ==
    IF m = 2 THEN DaysInYear(y) - 337
    ELSE IF m \in {4, 6, 9, 11} THEN 30 ELSE 31

RECURSIVE DaysBeforeMonth(_, _)
DaysBeforeMonth(y, m) ==
    IF m = 1 THEN 0 ELSE DaysBeforeMonth(y, m - 1) + DaysInMonth(y, m - 1)

RECURSIVE DaysBeforeYear(_)
DaysBeforeYear(y) == IF y = 1970 THEN 0 ELSE DaysBeforeYear(y - 1) + DaysInYear(y - 1)

\* the days from 1970-01-01 to a date of 1970 or later
DaysFromCivil(y, m, d) == DaysBeforeYear(y) + DaysBeforeMonth(y, m) + d - 1

\* std::mktime: the fields are a local time, tm_isdst is 0
mktime(tm, offset) ==
    DaysFromCivil(tm.tm_year + 1900, tm.tm_mon + 1, tm.tm_mday) * 86400 - offset

\* the division of signed integers truncates toward zero
TruncDiv(a, b) == IF a >= 0 THEN a \div b ELSE 0 - ((0 - a) \div b)

date_string_to_days(str, offset) ==
    TruncDiv(mktime(get_time(str), offset), 60 * 60 * 24)

\* arrow::Scalar::Parse(date32(), s): the days of the calendar date
ParseDate32(str) ==
    DaysFromCivil(ParseDigits(SubSeq(str, 1, 4), 0), ParseDigits(SubSeq(str, 6, 7), 0),
                  ParseDigits(SubSeq(str, 9, 10), 0))

DateIdle ==
    /\ date_pc = "idle"
    /\ date_str = <<>> /\ utc_offset = 0 /\ date_out = 0

DateInit ==
    /\ date_pc = "call"
    /\ date_str \in DateStrings
    /\ utc_offset \in UtcOffsets
    /\ date_out = 0

DateConvert ==
    /\ date_pc = "call"
    /\ date_out' = date_string_to_days(date_str, utc_offset)
    /\ date_pc' = "done"
    /\ UNCHANGED <<date_str, utc_offset>>
    /\ UNCHANGED dateOthers

DateNext == DateConvert

\* the offsets of the zones a run may be in: New York, UTC, Berlin
LocalZones == { h * 3600 : h \in {0 - 5, 0, 1} }

\* no conversion under way, the process in one of the zones
DateZone ==
    /\ date_pc = "idle"
    /\ date_str = <<>> /\ utc_offset \in LocalZones /\ date_out = 0

Green == <<"g", "r", "e", "e", "n">>

PartTables ==
    { << << [p_partkey |-> 1, p_name |-> <<"s", "e", "a", " ">> \o Green, nulls |-> {}],
            [p_partkey |-> 2, p_name |-> <<"r", "e", "d">>, nulls |-> {}] >>,
         << [p_partkey |-> 3, p_name |-> Green, nulls |-> {"p_partkey"}] >> >> }

NationTables ==
    { << << [n_nationkey |-> 1, n_name |-> "FRANCE", nulls |-> {}] >> >>,
      << << [n_nationkey |-> 1, n_name |-> "FRANCE", nulls |-> {}] >>,
         << [n_nationkey |-> 2, n_name |-> "PERU", nulls |-> {}] >> >> }

SupplierTables ==
    { << << [s_suppkey |-> 1, s_nationkey |-> 1, nulls |-> {}],
            [s_suppkey |-> 2, s_nationkey |-> 2, nulls |-> {}],
            [s_suppkey |-> 3, s_nationkey |-> 1, nulls |-> {}] >> >> }

PartsuppTables ==
    { << << [ps_partkey |-> 1, ps_suppkey |-> 1, ps_supplycost |-> 2000, nulls |-> {}],
            [ps_partkey |-> 1, ps_suppkey |-> 2, ps_supplycost |-> 2000, nulls |-> {}],
            [ps_partkey |-> 2, ps_suppkey |-> 1, ps_supplycost |-> 2000, nulls |-> {}] >> >> }

PartsuppCostType == Decimal128Type(2)

OrdersYearTables ==
    { << << [o_orderkey |-> 1, o_orderdate |-> 9282, nulls |-> {}],
            [o_orderkey |-> 2, o_orderdate |-> 9600, nulls |-> {}],
            [o_orderkey |-> 5, o_orderdate |-> 9600, nulls |-> {"o_orderdate"}] >> >> }

PartStep(gp, row) ==
    IF "p_partkey" \in row.nulls \/ "p_name" \in row.nulls THEN gp
    ELSE IF contains_substring(row.p_name, Green) THEN gp \cup {row.p_partkey}
    ELSE gp

NationStep(m, row) ==
    IF "n_nationkey" \in row.nulls \/ "n_name" \in row.nulls THEN m
    ELSE MapPut(m, row.n_nationkey, row.n_name)

SupplierStep(m, row) ==
    IF "s_suppkey" \in row.nulls \/ "s_nationkey" \in row.nulls THEN m
    ELSE MapPut(m, row.s_suppkey, row.s_nationkey)

PartsuppStep(m, row) ==
    IF "ps_partkey" \in row.nulls \/ "ps_suppkey" \in row.nulls
         \/ "ps_supplycost" \in row.nulls THEN m
    ELSE IF row.ps_partkey \notin green_parts THEN m
    ELSE MapPut(m, <<row.ps_partkey, row.ps_suppkey>>,
                ScalarDecoded[row.ps_supplycost, ChunkScale(PartsuppCostType)])

OrdersYearStep(m, row) ==
    IF "o_orderkey" \in row.nulls \/ "o_orderdate" \in row.nulls THEN m
    ELSE MapPut(m, row.o_orderkey, days_to_year(row.o_orderdate))

\* the lineitem rows a chunk may hold
LineRow(ok, pk, sk, q, p, d, nl) ==
    [l_orderkey |-> ok, l_partkey |-> pk, l_suppkey |-> sk, l_quantity |-> q,
     l_extendedprice |-> p, l_discount |-> d, nulls |-> nl]

Q9NoRow == LineRow(0, 0, 0, 0, 0, 0, {})

Q9LineRows ==
    { LineRow(1, 1, 1, 100, 12000, 0, {}),
      LineRow(1, 1, 1, 100, 0, 0, {}),
      LineRow(1, 1, 1, 100, 2500, 0, {}),
      LineRow(2, 1, 1, 100, 12000, 50, {}),
      LineRow(1, 2, 1, 100, 12000, 0, {}),
      LineRow(3, 1, 1, 100, 12000, 0, {}),
      LineRow(1, 1, 4, 100, 12000, 0, {}),
      LineRow(1, 1, 3, 100, 12000, 0, {}),
      LineRow(1, 1, 2, 100, 12000, 0, {}),
      LineRow(1, 1, 1, 100, 12000, 0, {"l_quantity"}) }

Q9NullChecked ==
    {"l_orderkey", "l_partkey", "l_suppkey", "l_quantity", "l_extendedprice",
     "l_discount"}

Q9TypeChoices ==
    { [l_quantity |-> Decimal128Type(2), l_extendedprice |-> Decimal128Type(2),
       l_discount |-> Decimal128Type(2)],
      [l_quantity |-> Decimal128Type(2), l_extendedprice |-> Decimal128Type(3),
       l_discount |-> DoubleType] }

\* the accumulator update, were it an assignment instead of an addition
AccumulateProfit_Overwrite(m, key, amount) == MapPut(m, key, amount)

\* the accumulator update, were the contribution subtracted
AccumulateProfit_Subtract(m, key, amount) ==
    LET m1 == MapIndex(m, key, <<0, 1>>)
    IN  [m1 EXCEPT ![key] = RSub(@, amount)]

\* profit_by_nation_year[key] += amount
AccumulateProfit(m, key, amount) ==
    LET m1 == MapIndex(m, key, <<0, 1>>)
    IN  [m1 EXCEPT ![key] = RAdd(@, amount)]

\* the row passes the null test and every find() of the lineitem loop
Q9RowJoins(row) ==
    /\ row.nulls \cap Q9NullChecked = {}
    /\ row.l_partkey \in green_parts
    /\ row.l_orderkey \in DOMAIN order_year_map
    /\ row.l_suppkey \in DOMAIN supplier_nation_map
    /\ <<row.l_partkey, row.l_suppkey>> \in DOMAIN partsupp_cost_map

Q9Amount(row) ==
    LET quantity      == ScalarDecoded[row.l_quantity, q9_scales.l_quantity]
        extendedprice == ScalarDecoded[row.l_extendedprice, q9_scales.l_extendedprice]
        discount      == ScalarDecoded[row.l_discount, q9_scales.l_discount]
        supplycost    == partsupp_cost_map[<<row.l_partkey, row.l_suppkey>>]
    IN  RSub(RMul(extendedprice, RSub(RInt(1), discount)), RMul(supplycost, quantity))

Q9Idle ==
    /\ q9_pc = "idle"
    /\ q9_types = CHOOSE t \in Q9TypeChoices : t.l_discount.id = "DECIMAL128"
    /\ green_parts = {}
    /\ nation_map = EmptyMap
    /\ supplier_nation_map = EmptyMap
    /\ partsupp_cost_map = EmptyMap
    /\ order_year_map = EmptyMap
    /\ profit_by_nation_year = EmptyMap
    /\ q9_rows_processed = 0
    /\ q9_rows_qualified = 0
    /\ q9_chunk_idx = 0
    /\ q9_scales = [l_quantity |-> DefaultScale, l_extendedprice |-> DefaultScale,
                    l_discount |-> DefaultScale]
    /\ q9_row = Q9NoRow
    /\ q9_applied = <<>>
    /\ q9_results = <<>>

Q9Init ==
    /\ q9_pc = "part"
    /\ q9_types \in Q9TypeChoices
    /\ green_parts = {}
    /\ nation_map = EmptyMap
    /\ supplier_nation_map = EmptyMap
    /\ partsupp_cost_map = EmptyMap
    /\ order_year_map = EmptyMap
    /\ profit_by_nation_year = EmptyMap
    /\ q9_rows_processed = 0
    /\ q9_rows_qualified = 0
    /\ q9_chunk_idx = 0
    /\ q9_scales = [l_quantity |-> DefaultScale, l_extendedprice |-> DefaultScale,
                    l_discount |-> DefaultScale]
    /\ q9_row = Q9NoRow
    /\ q9_applied = <<>>
    /\ q9_results = <<>>

Q9BuildPart ==
    /\ q9_pc = "part"
    /\ \E t \in PartTables : green_parts' = FoldRows(PartStep, {}, Flatten(t))
    /\ q9_pc' = "nation"
    /\ UNCHANGED <<q9_types, nation_map, supplier_nation_map, partsupp_cost_map,
                   order_year_map, profit_by_nation_year, q9_rows_processed,
                   q9_rows_qualified, q9_chunk_idx, q9_scales, q9_row, q9_applied,
                   q9_results>>
    /\ UNCHANGED q9Others

Q9BuildNation ==
    /\ q9_pc = "nation"
    /\ \E t \in NationTables : nation_map' = FoldRows(NationStep, EmptyMap, Flatten(t))
    /\ q9_pc' = "supplier"
    /\ UNCHANGED <<q9_types, green_parts, supplier_nation_map, partsupp_cost_map,
                   order_year_map, profit_by_nation_year, q9_rows_processed,
                   q9_rows_qualified, q9_chunk_idx, q9_scales, q9_row, q9_applied,
                   q9_results>>
    /\ UNCHANGED q9Others

Q9BuildSupplier ==
    /\ q9_pc = "supplier"
    /\ \E t \in SupplierTables :
          supplier_nation_map' = FoldRows(SupplierStep, EmptyMap, Flatten(t))
    /\ q9_pc' = "partsupp"
    /\ UNCHANGED <<q9_types, green_parts, nation_map, partsupp_cost_map,
                   order_year_map, profit_by_nation_year, q9_rows_processed,
                   q9_rows_qualified, q9_chunk_idx, q9_scales, q9_row, q9_applied,
                   q9_results>>
    /\ UNCHANGED q9Others

Q9BuildPartsupp ==
    /\ q9_pc = "partsupp"
    /\ \E t \in PartsuppTables :
          partsupp_cost_map' = FoldRows(PartsuppStep, EmptyMap, Flatten(t))
    /\ q9_pc' = "orders"
    /\ UNCHANGED <<q9_types, green_parts, nation_map, supplier_nation_map,
                   order_year_map, profit_by_nation_year, q9_rows_processed,
                   q9_rows_qualified, q9_chunk_idx, q9_scales, q9_row, q9_applied,
                   q9_results>>
    /\ UNCHANGED q9Others

Q9BuildOrders ==
    /\ q9_pc = "orders"
    /\ \E t \in OrdersYearTables :
          order_year_map' = FoldRows(OrdersYearStep, EmptyMap, Flatten(t))
    /\ q9_pc' = "lineitem"
    /\ UNCHANGED <<q9_types, green_parts, nation_map, supplier_nation_map,
                   partsupp_cost_map, profit_by_nation_year, q9_rows_processed,
                   q9_rows_qualified, q9_chunk_idx, q9_scales, q9_row, q9_applied,
                   q9_results>>
    /\ UNCHANGED q9Others

\* for (chunk_idx ...): the scales of the chunk's decimal columns
Q9ChunkStart ==
    /\ q9_pc = "lineitem"
    /\ q9_chunk_idx < MaxChunks
    /\ q9_chunk_idx' = q9_chunk_idx + 1
    /\ q9_scales' = [c \in DOMAIN q9_types |-> ChunkScale(q9_types[c])]
    /\ q9_pc' = "rows"
    /\ UNCHANGED <<q9_types, green_parts, nation_map, supplier_nation_map,
                   partsupp_cost_map, order_year_map, profit_by_nation_year,
                   q9_rows_processed, q9_rows_qualified, q9_row, q9_applied,
                   q9_results>>
    /\ UNCHANGED q9Others

\* one iteration of for (i < num_rows)
Q9LineitemRow ==
    /\ q9_pc = "rows"
    /\ q9_rows_processed < MaxLineRows
    /\ \E row \in Q9LineRows :
          /\ q9_row' = row
          /\ q9_rows_processed' = q9_rows_processed + 1
          /\ IF Q9RowJoins(row)
             THEN LET year      == order_year_map[row.l_orderkey]
                      nationkey == supplier_nation_map[row.l_suppkey]
                      nm        == MapIndex(nation_map, nationkey, "")
                      key       == <<nm[nationkey], year>>
                      amount    == Q9Amount(row)
                  IN  /\ nation_map' = nm
                      /\ profit_by_nation_year' =
                             AccumulateProfit(profit_by_nation_year, key, amount)
                      /\ q9_applied' = Append(q9_applied, [key |-> key, amount |-> amount])
                      /\ q9_rows_qualified' = q9_rows_qualified + 1
             ELSE UNCHANGED <<nation_map, profit_by_nation_year, q9_applied,
                              q9_rows_qualified>>
    /\ UNCHANGED <<q9_pc, q9_types, green_parts, supplier_nation_map,
                   partsupp_cost_map, order_year_map, q9_chunk_idx, q9_scales,
                   q9_results>>
    /\ UNCHANGED q9Others

Q9ChunkEnd ==
    /\ q9_pc = "rows"
    /\ q9_pc' = "lineitem"
    /\ UNCHANGED <<q9_types, green_parts, nation_map, supplier_nation_map,
                   partsupp_cost_map, order_year_map, profit_by_nation_year,
                   q9_rows_processed, q9_rows_qualified, q9_chunk_idx, q9_scales,
                   q9_row, q9_applied, q9_results>>
    /\ UNCHANGED q9Others

\* std::string operator< on the names the tables hold
StrOrder == <<"", "1-URGENT", "2-HIGH", "A", "AIR", "F", "FRANCE", "MAIL", "N", "O",
              "PERU", "SHIP">>
StrRank == [s \in {StrOrder[i] : i \in DOMAIN StrOrder} |->
               CHOOSE i \in DOMAIN StrOrder : StrOrder[i] = s]

\* the comparison, were the year ascending
Query9ResultLess_YearAscending(a, b) ==
    IF a.nation # b.nation THEN StrRank[a.nation] < StrRank[b.nation]
    ELSE a.o_year < b.o_year

\* Query9Result::operator<
Query9ResultLess(a, b) ==
    IF a.nation # b.nation THEN StrRank[a.nation] < StrRank[b.nation]
    ELSE a.o_year > b.o_year

\* one result row per nation: the row of its latest year
Q9Sort_KeepsOneRowPerNation ==
    /\ q9_pc = "lineitem"
    /\ LET rs == { [nation |-> k[1], o_year |-> k[2],
                    sum_profit |-> profit_by_nation_year[k]] :
                   k \in { x \in DOMAIN profit_by_nation_year :
                              \A y \in DOMAIN profit_by_nation_year :
                                 y[1] = x[1] => y[2] <= x[2] } }
       IN  q9_results' =
              CHOOSE sq \in [1..Cardinality(rs) -> rs] :
                 /\ \A i, j \in 1..Cardinality(rs) : i # j => sq[i] # sq[j]
                 /\ \A i, j \in 1..Cardinality(rs) :
                        i < j => ~Query9ResultLess(sq[j], sq[i])
    /\ q9_pc' = "done"
    /\ UNCHANGED <<q9_types, green_parts, nation_map, supplier_nation_map,
                   partsupp_cost_map, order_year_map, profit_by_nation_year,
                   q9_rows_processed, q9_rows_qualified, q9_chunk_idx, q9_scales,
                   q9_row, q9_applied>>
    /\ UNCHANGED q9Others

\* the results vector filled from the map, then std::sort
Q9Sort ==
    /\ q9_pc = "lineitem"
    /\ LET rs == { [nation |-> k[1], o_year |-> k[2],
                    sum_profit |-> profit_by_nation_year[k]] :
                   k \in DOMAIN profit_by_nation_year }
       IN  q9_results' =
              CHOOSE sq \in [1..Cardinality(rs) -> rs] :
                 /\ \A i, j \in 1..Cardinality(rs) : i # j => sq[i] # sq[j]
                 /\ \A i, j \in 1..Cardinality(rs) :
                        i < j => ~Query9ResultLess(sq[j], sq[i])
    /\ q9_pc' = "done"
    /\ UNCHANGED <<q9_types, green_parts, nation_map, supplier_nation_map,
                   partsupp_cost_map, order_year_map, profit_by_nation_year,
                   q9_rows_processed, q9_rows_qualified, q9_chunk_idx, q9_scales,
                   q9_row, q9_applied>>
    /\ UNCHANGED q9Others

Q9Next ==
    \/ Q9BuildPart \/ Q9BuildNation \/ Q9BuildSupplier \/ Q9BuildPartsupp
    \/ Q9BuildOrders \/ Q9ChunkStart \/ Q9LineitemRow \/ Q9ChunkEnd \/ Q9Sort

(***************************************************************************)
(* query1: one pass over the lineitem chunks, grouped by (l_returnflag,     *)
(* l_linestatus); the averages are filled in after the last chunk.          *)
(***************************************************************************)
CutoffDays == 10471

\* cutoff_days = date_string_to_days("1998-09-02")
cutoff_days == date_string_to_days(<<"1", "9", "9", "8", "-", "0", "9", "-", "0", "2">>, utc_offset)

R0 == <<0, 1>>

\* struct AggregateValues, every member at its initializer
NewAggregateValues ==
    [sum_qty |-> R0, sum_base_price |-> R0, sum_disc_price |-> R0,
     sum_charge |-> R0, avg_qty |-> R0, avg_price |-> R0, avg_disc |-> R0,
     sum_disc |-> R0, count_order |-> 0]

Q1Row(sd, rf, ls, q, p, d, t, nl) ==
    [l_shipdate |-> sd, l_returnflag |-> rf, l_linestatus |-> ls,
     l_quantity |-> q, l_extendedprice |-> p, l_discount |-> d, l_tax |-> t,
     nulls |-> nl]

Q1NoRow == Q1Row(0, "", "", 0, 0, 0, 0, {})

\* a null slot still holds a value: the decimal bytes, the date and the string
\* offsets of the slot are whatever the writer left there
Q1LineRows ==
    { Q1Row(10000, "A", "F", 100, 2000, 50, 0, {}),
      Q1Row(10000, "A", "F", 200, 12000, 0, 50, {}),
      Q1Row(CutoffDays, "N", "O", 100, 2000, 0, 0, {}),
      Q1Row(CutoffDays + 1, "A", "F", 100, 2000, 0, 0, {}),
      Q1Row(10000, "A", "F", 100, 2000, 0, 0, {"l_shipdate"}),
      Q1Row(10000, "A", "F", 100, 2000, 0, 0, {"l_quantity"}),
      Q1Row(10000, "", "F", 100, 2000, 0, 0, {"l_returnflag"}),
      Q1Row(10000, "N", "O", 0, 0, 50, 0, {"l_discount", "l_tax"}) }

Q1Columns == {"l_quantity", "l_extendedprice", "l_discount", "l_tax"}

Q1TypeChoices ==
    { [c \in Q1Columns |-> Decimal128Type(2)],
      [l_quantity |-> Decimal128Type(0), l_extendedprice |-> Decimal128Type(1),
       l_discount |-> Decimal128Type(3), l_tax |-> DoubleType],
      [l_quantity |-> Decimal128Type(2), l_extendedprice |-> DoubleType,
       l_discount |-> Decimal128Type(2), l_tax |-> Decimal128Type(2)] }

\* the sums updated, count_order left as it is
UpdateAggregates_CountNotIncremented(m, key, quantity, extendedprice, discount, tax) ==
    LET disc_price == RMul(extendedprice, RSub(RInt(1), discount))
        charge     == RMul(disc_price, RAdd(RInt(1), tax))
        m1         == MapIndex(m, key, NewAggregateValues)
    IN  [m1 EXCEPT ![key] =
            [@ EXCEPT !.sum_qty        = RAdd(@, quantity),
                      !.sum_base_price = RAdd(@, extendedprice),
                      !.sum_disc_price = RAdd(@, disc_price),
                      !.sum_charge     = RAdd(@, charge),
                      !.sum_disc       = RAdd(@, discount)]]

\* groups[key], then the six statements that update the aggregates
UpdateAggregates(m, key, quantity, extendedprice, discount, tax) ==
    LET disc_price == RMul(extendedprice, RSub(RInt(1), discount))
        charge     == RMul(disc_price, RAdd(RInt(1), tax))
        m1         == MapIndex(m, key, NewAggregateValues)
    IN  [m1 EXCEPT ![key] =
            [@ EXCEPT !.sum_qty        = RAdd(@, quantity),
                      !.sum_base_price = RAdd(@, extendedprice),
                      !.sum_disc_price = RAdd(@, disc_price),
                      !.sum_charge     = RAdd(@, charge),
                      !.sum_disc       = RAdd(@, discount),
                      !.count_order    = @ + 1]]

\* the body of the loop that calculates the averages, without them
CalculateAverages_Skipped(agg) == agg

\* the body of the loop that calculates the averages
CalculateAverages(agg) ==
    IF agg.count_order > 0
    THEN [agg EXCEPT !.avg_qty   = RDivInt(agg.sum_qty, agg.count_order),
                     !.avg_price = RDivInt(agg.sum_base_price, agg.count_order),
                     !.avg_disc  = RDivInt(agg.sum_disc, agg.count_order)]
    ELSE agg

\* GroupKey::operator<
GroupKeyLess(a, b) ==
    IF a[1] # b[1] THEN StrRank[a[1]] < StrRank[b[1]]
    ELSE StrRank[a[2]] < StrRank[b[2]]

\* what Open, OpenFile and ReadTable make of a file
FileStatuses == {"ok", "open_fails", "openfile_fails", "read_fails"}

Q1Idle ==
    /\ q1_pc = "idle"
    /\ q1_status = "ok"
    /\ q1_types = [c \in Q1Columns |-> Decimal128Type(2)]
    /\ q1_scales = [c \in Q1Columns |-> DefaultScale]
    /\ q1_chunk_idx = 0
    /\ groups = EmptyMap
    /\ q1_rows_processed = 0
    /\ rows_accepted = 0
    /\ q1_row = Q1NoRow
    /\ sorted_results = <<>>

Q1Init ==
    /\ q1_pc = "load"
    /\ q1_status \in FileStatuses
    /\ q1_types \in Q1TypeChoices
    /\ q1_scales = [c \in Q1Columns |-> DefaultScale]
    /\ q1_chunk_idx = 0
    /\ groups = EmptyMap
    /\ q1_rows_processed = 0
    /\ rows_accepted = 0
    /\ q1_row = Q1NoRow
    /\ sorted_results = <<>>

\* Open, OpenFile and ReadTable of the lineitem file: return 1 at the first
\* that fails
Q1Load ==
    /\ q1_pc = "load"
    /\ q1_pc' = IF q1_status = "ok" THEN "chunks" ELSE "failed"
    /\ UNCHANGED <<q1_types, q1_scales, q1_chunk_idx, groups, q1_rows_processed,
                   rows_accepted, q1_row, sorted_results, q1_status>>
    /\ UNCHANGED q1Others

\* for (chunk_idx ...): the four scales of the chunk
Q1ChunkStart ==
    /\ q1_pc = "chunks"
    /\ q1_chunk_idx < MaxChunks
    /\ q1_chunk_idx' = q1_chunk_idx + 1
    /\ q1_scales' = [c \in Q1Columns |-> ChunkScale(q1_types[c])]
    /\ q1_pc' = "rows"
    /\ UNCHANGED <<q1_types, groups, q1_rows_processed, rows_accepted, q1_row,
                   sorted_results>>
    /\ UNCHANGED q1_status
    /\ UNCHANGED q1Others

\* one iteration of for (i < num_rows)
Q1LineitemRow ==
    /\ q1_pc = "rows"
    /\ q1_rows_processed < MaxLineRows
    /\ \E row \in Q1LineRows :
          /\ q1_row' = row
          /\ q1_rows_processed' = q1_rows_processed + 1
          /\ IF "l_shipdate" \in row.nulls \/ row.l_shipdate > cutoff_days
             THEN UNCHANGED <<groups, rows_accepted>>
             ELSE /\ rows_accepted' = rows_accepted + 1
                  /\ groups' = UpdateAggregates(groups,
                        <<row.l_returnflag, row.l_linestatus>>,
                        ScalarDecoded[row.l_quantity, q1_scales.l_quantity],
                        ScalarDecoded[row.l_extendedprice, q1_scales.l_extendedprice],
                        ScalarDecoded[row.l_discount, q1_scales.l_discount],
                        ScalarDecoded[row.l_tax, q1_scales.l_tax])
    /\ UNCHANGED <<q1_pc, q1_types, q1_scales, q1_chunk_idx, sorted_results>>
    /\ UNCHANGED q1_status
    /\ UNCHANGED q1Others

Q1ChunkEnd ==
    /\ q1_pc = "rows"
    /\ q1_pc' = "chunks"
    /\ UNCHANGED <<q1_types, q1_scales, q1_chunk_idx, groups, q1_rows_processed,
                   rows_accepted, q1_row, sorted_results>>
    /\ UNCHANGED q1_status
    /\ UNCHANGED q1Others

\* for (auto& pair : groups): the averages of every group
Q1Finalize ==
    /\ q1_pc = "chunks"
    /\ groups' = [k \in DOMAIN groups |-> CalculateAverages(groups[k])]
    /\ q1_pc' = "finalized"
    /\ UNCHANGED <<q1_types, q1_scales, q1_chunk_idx, q1_rows_processed,
                   rows_accepted, q1_row, sorted_results>>
    /\ UNCHANGED q1_status
    /\ UNCHANGED q1Others

\* the sort, were the scan to resume after it
Q1Sort_ThenRescans ==
    /\ q1_pc = "finalized"
    /\ sorted_results' = <<>>
    /\ q1_pc' = "chunks"
    /\ UNCHANGED <<q1_types, q1_scales, q1_chunk_idx, groups, q1_rows_processed,
                   rows_accepted, q1_row>>
    /\ UNCHANGED q1_status
    /\ UNCHANGED q1Others

\* the groups copied to a vector, then std::sort by key
Q1Sort ==
    /\ q1_pc = "finalized"
    /\ LET rs == { <<k, groups[k]>> : k \in DOMAIN groups }
       IN  sorted_results' =
              CHOOSE sq \in [1..Cardinality(rs) -> rs] :
                 /\ \A i, j \in 1..Cardinality(rs) : i # j => sq[i] # sq[j]
                 /\ \A i, j \in 1..Cardinality(rs) :
                        i < j => ~GroupKeyLess(sq[j][1], sq[i][1])
    /\ q1_pc' = "done"
    /\ UNCHANGED <<q1_types, q1_scales, q1_chunk_idx, groups, q1_rows_processed,
                   rows_accepted, q1_row>>
    /\ UNCHANGED q1_status
    /\ UNCHANGED q1Others

Q1Next ==
    \/ Q1Load
    \/ Q1ChunkStart
    \/ Q1LineitemRow
    \/ Q1ChunkEnd
    \/ Q1Finalize
    \/ Q1Sort

(***************************************************************************)
(* rvv_query1: the table is filtered by l_shipdate, the decimal columns of  *)
(* the filtered table are converted to float arrays, the kernels compute    *)
(* the discounted price and the charge, and the rows are grouped by index.  *)
(***************************************************************************)
Q1Tables ==
    { << << Q1Row(10000, "A", "F", 100, 2000, 50, 0, {}),
            Q1Row(10000, "A", "F", 200, 12000, 0, 50, {}),
            Q1Row(CutoffDays, "N", "O", 100, 2000, 0, 0, {}) >> >>,
      << << Q1Row(10000, "A", "F", 100, 2000, 50, 0, {}) >>,
         << Q1Row(10000, "N", "O", 200, 12000, 0, 50, {}),
            Q1Row(CutoffDays + 1, "A", "F", 100, 2000, 0, 0, {}) >> >>,
      << << Q1Row(10000, "A", "F", 100, 2000, 0, 0, {"l_quantity"}),
            Q1Row(10000, "A", "F", 100, 2000, 0, 0, {"l_shipdate"}) >> >> }

\* what a read past the end of a chunk's buffer may return
GarbageSlots == {0, 2500}
GarbageStrings == {"", "N"}

RECURSIVE SelectRows(_, _)
SelectRows(Keep(_), rows) ==
    IF rows = <<>> THEN <<>>
    ELSE (IF Keep(Head(rows)) THEN <<Head(rows)>> ELSE <<>>)
            \o SelectRows(Keep, Tail(rows))

\* less_equal(l_shipdate, 1998-09-02) is null for a null date, and Filter
\* drops the rows whose filter value is null or false
ShipdateFilter(row) == "l_shipdate" \notin row.nulls /\ row.l_shipdate <= CutoffDays

FilterTable(Keep(_), table) == [c \in DOMAIN table |-> SelectRows(Keep, table[c])]

\* Decimal128::ToDouble(scale)
Decimal128ToDouble(raw, scale) == Norm(raw, Pow10(scale))

\* chunk(0) of a column read at index i (from 1): the slot when the chunk has
\* it, anything otherwise
Chunk0Reads(table, col, i, garbage) ==
    IF i <= Len(table[1]) THEN {table[1][i][col]} ELSE garbage

RVV1NumRows == Len(Flatten(filtered_table))

ZeroData(n) == [i \in 1..n |-> R0]

\* price * (1 - discount), element by element
compute_disc_price_rvv(extendedprice, discount) ==
    [i \in DOMAIN extendedprice |-> RMul(extendedprice[i], RSub(RInt(1), discount[i]))]

\* disc_price * (1 + tax), element by element
compute_charge_rvv(disc_price, tax) ==
    [i \in DOMAIN disc_price |-> RMul(disc_price[i], RAdd(RInt(1), tax[i]))]

RECURSIVE sum_rvv(_)
sum_rvv(data) == IF data = <<>> THEN R0 ELSE RAdd(Head(data), sum_rvv(Tail(data)))

Gather(data, indices) == [j \in DOMAIN indices |-> data[indices[j]]]

RVV1Idle ==
    /\ rvv1_pc = "idle"
    /\ rvv1_types = [c \in Q1Columns |-> Decimal128Type(2)]
    /\ rvv1_table = << <<>> >>
    /\ filtered_table = << <<>> >>
    /\ rvv1_i = 0
    /\ price_data = <<>>
    /\ discount_data = <<>>
    /\ tax_data = <<>>
    /\ quantity_data = <<>>
    /\ disc_price_data = <<>>
    /\ charge_data = <<>>
    /\ rvv1_groups = EmptyMap
    /\ rvv1_out = EmptyMap

RVV1Init ==
    /\ rvv1_pc = "filter"
    /\ rvv1_types \in Q1TypeChoices
    /\ rvv1_table \in Q1Tables
    /\ filtered_table = << <<>> >>
    /\ rvv1_i = 0
    /\ price_data = <<>>
    /\ discount_data = <<>>
    /\ tax_data = <<>>
    /\ quantity_data = <<>>
    /\ disc_price_data = <<>>
    /\ charge_data = <<>>
    /\ rvv1_groups = EmptyMap
    /\ rvv1_out = EmptyMap

\* the filter, then the four zero-filled vectors of num_rows floats
RVV1Filter ==
    /\ rvv1_pc = "filter"
    /\ filtered_table' = FilterTable(ShipdateFilter, rvv1_table)
    /\ LET n == Len(Flatten(filtered_table'))
       IN  /\ price_data' = ZeroData(n)
           /\ discount_data' = ZeroData(n)
           /\ tax_data' = ZeroData(n)
           /\ quantity_data' = ZeroData(n)
    /\ rvv1_pc' = IF rvv1_types.l_extendedprice.id = "DECIMAL128"
                  THEN "decode" ELSE "kernels"
    /\ UNCHANGED <<rvv1_types, rvv1_table, rvv1_i, disc_price_data, charge_data,
                   rvv1_groups, rvv1_out>>
    /\ UNCHANGED rvv1Others

\* one iteration of the conversion loop: the four columns of row i
RVV1DecodeRow ==
    /\ rvv1_pc = "decode"
    /\ rvv1_i < RVV1NumRows
    /\ LET i == rvv1_i + 1
           scale_factor == rvv1_types.l_extendedprice.scale
       IN  \E p \in Chunk0Reads(filtered_table, "l_extendedprice", i, GarbageSlots),
              d \in Chunk0Reads(filtered_table, "l_discount", i, GarbageSlots),
              t \in Chunk0Reads(filtered_table, "l_tax", i, GarbageSlots),
              q \in Chunk0Reads(filtered_table, "l_quantity", i, GarbageSlots) :
              /\ price_data' = [price_data EXCEPT ![i] = Decimal128ToDouble(p, scale_factor)]
              /\ discount_data' =
                    [discount_data EXCEPT ![i] = Decimal128ToDouble(d, scale_factor)]
              /\ tax_data' = [tax_data EXCEPT ![i] = Decimal128ToDouble(t, scale_factor)]
              /\ quantity_data' =
                    [quantity_data EXCEPT ![i] = Decimal128ToDouble(q, scale_factor)]
    /\ rvv1_i' = rvv1_i + 1
    /\ UNCHANGED <<rvv1_pc, rvv1_types, rvv1_table, filtered_table, disc_price_data,
                   charge_data, rvv1_groups, rvv1_out>>
    /\ UNCHANGED rvv1Others

RVV1DecodeEnd ==
    /\ rvv1_pc = "decode"
    /\ rvv1_i = RVV1NumRows
    /\ rvv1_pc' = "kernels"
    /\ UNCHANGED <<rvv1_types, rvv1_table, filtered_table, rvv1_i, price_data,
                   discount_data, tax_data, quantity_data, disc_price_data,
                   charge_data, rvv1_groups, rvv1_out>>
    /\ UNCHANGED rvv1Others

\* compute_disc_price_rvv, then compute_charge_rvv on its result
RVV1Kernels ==
    /\ rvv1_pc = "kernels"
    /\ disc_price_data' = compute_disc_price_rvv(price_data, discount_data)
    /\ charge_data' = compute_charge_rvv(disc_price_data', tax_data)
    /\ rvv1_i' = 0
    /\ rvv1_pc' = "group"
    /\ UNCHANGED <<rvv1_types, rvv1_table, filtered_table, price_data, discount_data,
                   tax_data, quantity_data, rvv1_groups, rvv1_out>>
    /\ UNCHANGED rvv1Others

\* groups[{returnflag, linestatus}].push_back(i)
RVV1GroupRow ==
    /\ rvv1_pc = "group"
    /\ rvv1_i < RVV1NumRows
    /\ LET i == rvv1_i + 1
       IN  \E rf \in Chunk0Reads(filtered_table, "l_returnflag", i, GarbageStrings),
              ls \in Chunk0Reads(filtered_table, "l_linestatus", i, GarbageStrings) :
              LET m == MapIndex(rvv1_groups, <<rf, ls>>, <<>>)
              IN  rvv1_groups' = [m EXCEPT ![<<rf, ls>>] = Append(@, i)]
    /\ rvv1_i' = rvv1_i + 1
    /\ UNCHANGED <<rvv1_pc, rvv1_types, rvv1_table, filtered_table, price_data,
                   discount_data, tax_data, quantity_data, disc_price_data,
                   charge_data, rvv1_out>>
    /\ UNCHANGED rvv1Others

\* the sums and the averages of every group, in key order
RVV1Aggregate ==
    /\ rvv1_pc = "group"
    /\ rvv1_i = RVV1NumRows
    /\ rvv1_out' =
          [key \in DOMAIN rvv1_groups |->
              LET indices    == rvv1_groups[key]
                  group_size == Len(indices)
                  sum_qty    == sum_rvv(Gather(quantity_data, indices))
                  sum_price  == sum_rvv(Gather(price_data, indices))
                  sum_disc   == sum_rvv(Gather(discount_data, indices))
              IN  [sum_qty        |-> sum_qty,
                   sum_base_price |-> sum_price,
                   sum_disc_price |-> sum_rvv(Gather(disc_price_data, indices)),
                   sum_charge     |-> sum_rvv(Gather(charge_data, indices)),
                   avg_qty        |-> RDivInt(sum_qty, group_size),
                   avg_price      |-> RDivInt(sum_price, group_size),
                   avg_disc       |-> RDivInt(sum_disc, group_size),
                   count_order    |-> group_size]]
    /\ rvv1_pc' = "done"
    /\ UNCHANGED <<rvv1_types, rvv1_table, filtered_table, rvv1_i, price_data,
                   discount_data, tax_data, quantity_data, disc_price_data,
                   charge_data, rvv1_groups>>
    /\ UNCHANGED rvv1Others

RVV1Next ==
    \/ RVV1Filter \/ RVV1DecodeRow \/ RVV1DecodeEnd \/ RVV1Kernels
    \/ RVV1GroupRow \/ RVV1Aggregate

(***************************************************************************)
(* rvv_query4: orders are filtered by o_orderdate, check_late_delivery_rvv  *)
(* marks the lineitem rows with l_commitdate < l_receiptdate in a bit mask, *)
(* the keys of the marked rows are collected, and the filtered orders whose *)
(* key was collected are counted by priority.                               *)
(***************************************************************************)
Q4StartDate == 8582
Q4EndDate == 8674
ByteBits == 8

OrderRow(k, d, pr, nl) ==
    [o_orderkey |-> k, o_orderdate |-> d, o_orderpriority |-> pr, nulls |-> nl]

Q4LineRow(k, c, r, nl) ==
    [l_orderkey |-> k, l_commitdate |-> c, l_receiptdate |-> r, nulls |-> nl]

Q4OrdersTables ==
    { << << OrderRow(1, 8600, "1-URGENT", {}),
            OrderRow(2, 8600, "2-HIGH", {}),
            OrderRow(3, Q4EndDate, "1-URGENT", {}) >> >>,
      << << OrderRow(1, 8600, "1-URGENT", {}) >>,
         << OrderRow(2, Q4StartDate, "2-HIGH", {}),
            OrderRow(3, 8600, "1-URGENT", {"o_orderdate"}) >> >> }

Q4LineitemTables ==
    { << << Q4LineRow(1, 100, 200, {}),
            Q4LineRow(2, 300, 200, {}),
            Q4LineRow(1, 100, 200, {}) >> >>,
      << << Q4LineRow(1, 300, 200, {}) >>,
         << Q4LineRow(2, 100, 200, {}) >> >>,
      << << Q4LineRow(1, 100, 200, {}) >>,
         << Q4LineRow(2, 300, 200, {}) >> >>,
      << << Q4LineRow(2, 0, 200, {"l_commitdate"}),
            Q4LineRow(1, 200, 200, {"l_receiptdate"}) >> >> }

\* what a read past the end of a chunk's buffer may return
GarbageDates == {0, 250}
GarbageKeys == {1, 2}
GarbagePriorities == {"", "2-HIGH"}

\* greater_equal and less are null for a null date; Filter drops those rows
OrderDateFilter(row) ==
    /\ "o_orderdate" \notin row.nulls
    /\ row.o_orderdate >= Q4StartDate
    /\ row.o_orderdate < Q4EndDate

RECURSIVE Pow2(_)
Pow2(n) == IF n = 0 THEN 1 ELSE 2 * Pow2(n - 1)

\* (byte & (1 << bit_index)) != 0, idx from 0
TestBit(bytes, idx) ==
    (bytes[idx \div ByteBits + 1] \div Pow2(idx % ByteBits)) % 2 = 1

\* results[byte_index] |= (1 << bit_index), idx from 0
SetBit(bytes, idx) ==
    IF TestBit(bytes, idx) THEN bytes
    ELSE [bytes EXCEPT ![idx \div ByteBits + 1] = @ + Pow2(idx % ByteBits)]

\* the body of the inner loop of check_late_delivery_rvv at index idx
LateDeliveryStep(results, idx, commitdate, receiptdate) ==
    IF commitdate < receiptdate THEN SetBit(results, idx) ELSE results

\* if (is_late) late_order_keys.insert(key)
LateKeyStep(keys, is_late, key) == IF is_late THEN keys \cup {key} ELSE keys

\* if (late_order_keys.find(order_key) != end) priority_counts[priority]++
PriorityCountStep(counts, keys, order_key, priority) ==
    IF order_key \in keys
    THEN LET m == MapIndex(counts, priority, 0) IN [m EXCEPT ![priority] = @ + 1]
    ELSE counts

RVV4NumLineitemRows == Len(Flatten(rvv4_lineitem))
RVV4NumFilteredOrders == Len(Flatten(filtered_orders))

RVV4Idle ==
    /\ rvv4_pc = "idle"
    /\ rvv4_orders = << <<>> >>
    /\ rvv4_lineitem = << <<>> >>
    /\ filtered_orders = << <<>> >>
    /\ rvv4_i = 0
    /\ late_delivery_mask = <<>>
    /\ late_order_keys = {}
    /\ priority_counts = EmptyMap

RVV4Init ==
    /\ rvv4_pc = "filter"
    /\ rvv4_orders \in Q4OrdersTables
    /\ rvv4_lineitem \in Q4LineitemTables
    /\ filtered_orders = << <<>> >>
    /\ rvv4_i = 0
    /\ late_delivery_mask = <<>>
    /\ late_order_keys = {}
    /\ priority_counts = EmptyMap

\* the filter on o_orderdate, then the zeroed mask of (n + 7) / 8 bytes
RVV4FilterOrders ==
    /\ rvv4_pc = "filter"
    /\ filtered_orders' = FilterTable(OrderDateFilter, rvv4_orders)
    /\ late_delivery_mask' = Zeros((RVV4NumLineitemRows + ByteBits - 1) \div ByteBits)
    /\ rvv4_pc' = "mask"
    /\ UNCHANGED <<rvv4_orders, rvv4_lineitem, rvv4_i, late_order_keys,
                   priority_counts>>
    /\ UNCHANGED rvv4Others

\* check_late_delivery_rvv at one index of the raw values of chunk(0)
RVV4MaskRow ==
    /\ rvv4_pc = "mask"
    /\ rvv4_i < RVV4NumLineitemRows
    /\ \E c \in Chunk0Reads(rvv4_lineitem, "l_commitdate", rvv4_i + 1, GarbageDates),
          r \in Chunk0Reads(rvv4_lineitem, "l_receiptdate", rvv4_i + 1, GarbageDates) :
          late_delivery_mask' = LateDeliveryStep(late_delivery_mask, rvv4_i, c, r)
    /\ rvv4_i' = rvv4_i + 1
    /\ UNCHANGED <<rvv4_pc, rvv4_orders, rvv4_lineitem, filtered_orders,
                   late_order_keys, priority_counts>>
    /\ UNCHANGED rvv4Others

RVV4MaskEnd ==
    /\ rvv4_pc = "mask"
    /\ rvv4_i = RVV4NumLineitemRows
    /\ rvv4_i' = 0
    /\ rvv4_pc' = "keys"
    /\ UNCHANGED <<rvv4_orders, rvv4_lineitem, filtered_orders, late_delivery_mask,
                   late_order_keys, priority_counts>>
    /\ UNCHANGED rvv4Others

\* one iteration of the loop that collects the keys of the late rows
RVV4KeyRow ==
    /\ rvv4_pc = "keys"
    /\ rvv4_i < RVV4NumLineitemRows
    /\ \E k \in Chunk0Reads(rvv4_lineitem, "l_orderkey", rvv4_i + 1, GarbageKeys) :
          late_order_keys' =
             LateKeyStep(late_order_keys, TestBit(late_delivery_mask, rvv4_i), k)
    /\ rvv4_i' = rvv4_i + 1
    /\ UNCHANGED <<rvv4_pc, rvv4_orders, rvv4_lineitem, filtered_orders,
                   late_delivery_mask, priority_counts>>
    /\ UNCHANGED rvv4Others

RVV4KeyEnd ==
    /\ rvv4_pc = "keys"
    /\ rvv4_i = RVV4NumLineitemRows
    /\ rvv4_i' = 0
    /\ rvv4_pc' = "orders"
    /\ UNCHANGED <<rvv4_orders, rvv4_lineitem, filtered_orders, late_delivery_mask,
                   late_order_keys, priority_counts>>
    /\ UNCHANGED rvv4Others

\* one iteration of the loop over the filtered orders
RVV4OrderRow ==
    /\ rvv4_pc = "orders"
    /\ rvv4_i < RVV4NumFilteredOrders
    /\ \E k \in Chunk0Reads(filtered_orders, "o_orderkey", rvv4_i + 1, GarbageKeys),
          pr \in Chunk0Reads(filtered_orders, "o_orderpriority", rvv4_i + 1,
                             GarbagePriorities) :
          priority_counts' = PriorityCountStep(priority_counts, late_order_keys, k, pr)
    /\ rvv4_i' = rvv4_i + 1
    /\ UNCHANGED <<rvv4_pc, rvv4_orders, rvv4_lineitem, filtered_orders,
                   late_delivery_mask, late_order_keys>>
    /\ UNCHANGED rvv4Others

RVV4OrdersEnd ==
    /\ rvv4_pc = "orders"
    /\ rvv4_i = RVV4NumFilteredOrders
    /\ rvv4_pc' = "done"
    /\ UNCHANGED <<rvv4_orders, rvv4_lineitem, filtered_orders, rvv4_i,
                   late_delivery_mask, late_order_keys, priority_counts>>
    /\ UNCHANGED rvv4Others

RVV4Next ==
    \/ RVV4FilterOrders \/ RVV4MaskRow \/ RVV4MaskEnd \/ RVV4KeyRow \/ RVV4KeyEnd
    \/ RVV4OrderRow \/ RVV4OrdersEnd

(***************************************************************************)
(* query12: the orders chunks fill the index order_priorities; the lineitem *)
(* chunks are then filtered row by row, probed, and counted by ship mode.   *)
(***************************************************************************)
Q12StartDate == 8766
Q12EndDate == 9131

\* start_date and end_date of query12
q12_start_date == date_string_to_days(<<"1", "9", "9", "4", "-", "0", "1", "-", "0", "1">>, utc_offset)
q12_end_date == date_string_to_days(<<"1", "9", "9", "5", "-", "0", "1", "-", "0", "1">>, utc_offset)

target_shipmodes == {"MAIL", "SHIP"}

Q12OrderRow(k, pr, nl) == [o_orderkey |-> k, o_orderpriority |-> pr, nulls |-> nl]

Q12OrdersTables ==
    { << << Q12OrderRow(1, "1-URGENT", {}),
            Q12OrderRow(2, "5-LOW", {}),
            Q12OrderRow(4, "2-HIGH", {"o_orderkey"}) >> >>,
      << << Q12OrderRow(1, "1-URGENT", {}) >>,
         << Q12OrderRow(1, "5-LOW", {}),
            Q12OrderRow(2, "2-HIGH", {}) >> >> }

Q12LineRow(k, sm, sd, cd, rd, nl) ==
    [l_orderkey |-> k, l_shipmode |-> sm, l_shipdate |-> sd, l_commitdate |-> cd,
     l_receiptdate |-> rd, nulls |-> nl]

Q12NoRow == Q12LineRow(0, "", 0, 0, 0, {})

Q12LineRows ==
    { Q12LineRow(1, "MAIL", 8700, 8750, 8800, {}),
      Q12LineRow(1, "SHIP", 8700, 8750, Q12StartDate, {}),
      Q12LineRow(2, "MAIL", 8700, 8750, 8800, {}),
      Q12LineRow(3, "MAIL", 8700, 8750, 8800, {}),
      Q12LineRow(1, "AIR", 8700, 8750, 8800, {}),
      Q12LineRow(1, "MAIL", 8700, 8800, 8800, {}),
      Q12LineRow(1, "MAIL", 8750, 8750, 8800, {}),
      Q12LineRow(1, "MAIL", 8700, 8750, Q12EndDate, {}),
      Q12LineRow(1, "MAIL", 8700, 8750, 8800, {"l_commitdate"}) }

Q12NullChecked ==
    {"l_orderkey", "l_shipmode", "l_shipdate", "l_commitdate", "l_receiptdate"}

\* order_priorities[orderkey] = priority, for a row without a null
OrderPriorityStep(m, row) ==
    IF "o_orderkey" \in row.nulls \/ "o_orderpriority" \in row.nulls THEN m
    ELSE MapPut(m, row.o_orderkey, row.o_orderpriority)

\* the null test, the ship mode test and the date conditions of the loop body
Q12RowPasses(row) ==
    /\ row.nulls \cap Q12NullChecked = {}
    /\ row.l_shipmode \in target_shipmodes
    /\ row.l_commitdate < row.l_receiptdate
    /\ row.l_shipdate < row.l_commitdate
    /\ row.l_receiptdate >= q12_start_date
    /\ row.l_receiptdate < q12_end_date

\* an urgent or high line counted as high and as low
CountLine_CountsBoth(m, shipmode, priority) ==
    LET m1 == MapIndex(m, shipmode, [l_shipmode |-> shipmode, high_line_count |-> 0,
                                     low_line_count |-> 0])
    IN  IF priority = "1-URGENT" \/ priority = "2-HIGH"
        THEN [m1 EXCEPT ![shipmode].high_line_count = @ + 1,
                        ![shipmode].low_line_count = @ + 1]
        ELSE [m1 EXCEPT ![shipmode].low_line_count = @ + 1]

\* the entry of the ship mode, created at zero when missing, then one count up
CountLine(m, shipmode, priority) ==
    LET m1 == MapIndex(m, shipmode, [l_shipmode |-> shipmode, high_line_count |-> 0,
                                     low_line_count |-> 0])
    IN  IF priority = "1-URGENT" \/ priority = "2-HIGH"
        THEN [m1 EXCEPT ![shipmode].high_line_count = @ + 1]
        ELSE [m1 EXCEPT ![shipmode].low_line_count = @ + 1]

\* Query12Result::operator<
Query12ResultLess(a, b) == StrRank[a.l_shipmode] < StrRank[b.l_shipmode]

Q12Idle ==
    /\ q12_pc = "idle"
    /\ q12_orders = << <<>> >>
    /\ order_priorities = EmptyMap
    /\ results_by_shipmode = EmptyMap
    /\ q12_rows_processed = 0
    /\ q12_rows_qualified = 0
    /\ q12_chunk_idx = 0
    /\ q12_row = Q12NoRow
    /\ q12_results = <<>>

Q12Init ==
    /\ q12_pc = "orders"
    /\ q12_orders \in Q12OrdersTables
    /\ order_priorities = EmptyMap
    /\ results_by_shipmode = EmptyMap
    /\ q12_rows_processed = 0
    /\ q12_rows_qualified = 0
    /\ q12_chunk_idx = 0
    /\ q12_row = Q12NoRow
    /\ q12_results = <<>>

\* the loop over the orders chunks
Q12BuildOrders ==
    /\ q12_pc = "orders"
    /\ order_priorities' = FoldRows(OrderPriorityStep, EmptyMap, Flatten(q12_orders))
    /\ q12_pc' = "lineitem"
    /\ UNCHANGED <<q12_orders, results_by_shipmode, q12_rows_processed,
                   q12_rows_qualified, q12_chunk_idx, q12_row, q12_results>>
    /\ UNCHANGED q12Others

Q12ChunkStart ==
    /\ q12_pc = "lineitem"
    /\ q12_chunk_idx < MaxChunks
    /\ q12_chunk_idx' = q12_chunk_idx + 1
    /\ q12_pc' = "rows"
    /\ UNCHANGED <<q12_orders, order_priorities, results_by_shipmode,
                   q12_rows_processed, q12_rows_qualified, q12_row, q12_results>>
    /\ UNCHANGED q12Others

\* one iteration of for (i < num_rows)
Q12LineitemRow ==
    /\ q12_pc = "rows"
    /\ q12_rows_processed < MaxLineRows
    /\ \E row \in Q12LineRows :
          /\ q12_row' = row
          /\ q12_rows_processed' = q12_rows_processed + 1
          /\ IF Q12RowPasses(row) /\ row.l_orderkey \in DOMAIN order_priorities
             THEN /\ results_by_shipmode' =
                        CountLine(results_by_shipmode, row.l_shipmode,
                                  order_priorities[row.l_orderkey])
                  /\ q12_rows_qualified' = q12_rows_qualified + 1
             ELSE UNCHANGED <<results_by_shipmode, q12_rows_qualified>>
    /\ UNCHANGED <<q12_pc, q12_orders, order_priorities, q12_chunk_idx, q12_results>>
    /\ UNCHANGED q12Others

Q12ChunkEnd ==
    /\ q12_pc = "rows"
    /\ q12_pc' = "lineitem"
    /\ UNCHANGED <<q12_orders, order_priorities, results_by_shipmode,
                   q12_rows_processed, q12_rows_qualified, q12_chunk_idx, q12_row,
                   q12_results>>
    /\ UNCHANGED q12Others

\* the map copied to a vector, then std::sort by ship mode
Q12Sort ==
    /\ q12_pc = "lineitem"
    /\ LET rs == { results_by_shipmode[k] : k \in DOMAIN results_by_shipmode }
       IN  q12_results' =
              CHOOSE sq \in [1..Cardinality(rs) -> rs] :
                 /\ \A i, j \in 1..Cardinality(rs) : i # j => sq[i] # sq[j]
                 /\ \A i, j \in 1..Cardinality(rs) :
                        i < j => ~Query12ResultLess(sq[j], sq[i])
    /\ q12_pc' = "done"
    /\ UNCHANGED <<q12_orders, order_priorities, results_by_shipmode,
                   q12_rows_processed, q12_rows_qualified, q12_chunk_idx, q12_row>>
    /\ UNCHANGED q12Others

Q12Next ==
    \/ Q12BuildOrders \/ Q12ChunkStart \/ Q12LineitemRow \/ Q12ChunkEnd \/ Q12Sort

(***************************************************************************)
(* Binary floating point for the kernels: a value is sign, magnitude and    *)
(* exponent, mag * 2^exp, the magnitude a bit sequence that is empty (zero) *)
(* or odd.  An operation is the exact result rounded to the nearest value   *)
(* of the format's precision, ties to even; the exponent range is not       *)
(* limited, so no value here overflows or is subnormal.                     *)
(***************************************************************************)
FloatBits == 24

FpZero == [neg |-> FALSE, mag |-> <<>>, exp |-> 0]

RECURSIVE LowZeros(_)
LowZeros(y) == IF y = <<>> \/ Head(y) = 1 THEN 0 ELSE 1 + LowZeros(Tail(y))

FpNorm(neg, mag, exp) ==
    LET t == Trim(mag)
        z == LowZeros(t)
    IN  IF t = <<>> THEN FpZero
        ELSE [neg |-> neg, mag |-> SubSeq(t, z + 1, Len(t)), exp |-> exp + z]

\* the value m * 2^e of x literal, m >= 0
Fp(m, e) == FpNorm(FALSE, NatBits(m), e)

FpNeg(v) == IF v.mag = <<>> THEN v ELSE [v EXCEPT !.neg = ~v.neg]

\* shift and add: the sum of x * 2^(i-1) over the set bits i of y
RECURSIVE MulFrom(_, _, _, _)
MulFrom(x, y, i, acc) ==
    IF i > Len(y) THEN acc
    ELSE IF y[i] = 0 THEN MulFrom(x, y, i + 1, acc)
    ELSE CHOOSE r \in {MulFrom(x, y, i + 1, s) :
                          s \in {AddMag(acc, Zeros(i - 1) \o x)}} : TRUE

MulMag(x, y) == IF x = <<>> THEN <<>> ELSE MulFrom(x, y, 1, <<>>)

\* round to p significant bits, ties to even
FpRound(v, p) ==
    IF Len(v.mag) <= p THEN v
    ELSE LET sh     == Len(v.mag) - p
             kept   == SubSeq(v.mag, sh + 1, Len(v.mag))
             half   == v.mag[sh] = 1
             sticky == \E i \in 1..(sh - 1) : v.mag[i] = 1
             up     == half /\ (sticky \/ kept[1] = 1)
         IN  FpNorm(v.neg, IF up THEN AddMag(kept, <<1>>) ELSE kept, v.exp + sh)

FpMulExact(x, y) == FpNorm(x.neg # y.neg, MulMag(x.mag, y.mag), x.exp + y.exp)

FpAddExact(x, y) ==
    IF x.mag = <<>> THEN y
    ELSE IF y.mag = <<>> THEN x
    ELSE LET e  == IF x.exp <= y.exp THEN x.exp ELSE y.exp
             ma == Zeros(x.exp - e) \o x.mag
             mb == Zeros(y.exp - e) \o y.mag
         IN  IF x.neg = y.neg THEN FpNorm(x.neg, AddMag(ma, mb), e)
             ELSE IF GeqMag(ma, mb) THEN FpNorm(x.neg, SubMag(ma, mb), e)
             ELSE FpNorm(y.neg, SubMag(mb, ma), e)

FpSubExact(x, y) == FpAddExact(x, FpNeg(y))

FpAbs(v) == [v EXCEPT !.neg = FALSE]

\* |x| <= |y|
FpAbsLeq(x, y) ==
    IF x.mag = <<>> THEN TRUE
    ELSE IF y.mag = <<>> THEN FALSE
    ELSE LET e == IF x.exp <= y.exp THEN x.exp ELSE y.exp
         IN  GeqMag(Zeros(y.exp - e) \o y.mag, Zeros(x.exp - e) \o x.mag)

\* vfsub.vv, vfadd.vv and vfmul.vv on one element of 32 bits
\* a lane whose 32 bits are all ones is a NaN, and an operation on a NaN
\* gives a NaN
FpNaN == [neg |-> TRUE, mag |-> <<>>, exp |-> 1]

\* (an operation takes its operands as values: they are bound by a set
\* constructor, which evaluates each of them once)
vfsub(x, y) ==
    CHOOSE r \in {IF u = FpNaN \/ w = FpNaN THEN FpNaN
                 ELSE FpRound(FpSubExact(u, w), FloatBits) : u \in {x}, w \in {y}} : TRUE
vfadd(x, y) ==
    CHOOSE r \in {IF u = FpNaN \/ w = FpNaN THEN FpNaN
                 ELSE FpRound(FpAddExact(u, w), FloatBits) : u \in {x}, w \in {y}} : TRUE
vfmul(x, y) ==
    CHOOSE r \in {IF u = FpNaN \/ w = FpNaN THEN FpNaN
                 ELSE FpRound(FpMulExact(u, w), FloatBits) : u \in {x}, w \in {y}} : TRUE

\* the operators -, + and * of double
DSub(x, y) ==
    CHOOSE r \in {FpRound(e, MantBits) : e \in {FpSubExact(u, w) : u \in {x}, w \in {y}}} : TRUE
DPlus(x, y) ==
    CHOOSE r \in {FpRound(e, MantBits) : e \in {FpAddExact(u, w) : u \in {x}, w \in {y}}} : TRUE
DMul(x, y) ==
    CHOOSE r \in {FpRound(e, MantBits) : e \in {FpMulExact(u, w) : u \in {x}, w \in {y}}} : TRUE

FpOne == Fp(1, 0)

(***************************************************************************)
(* rvv_query9: batch_process_profit, the chain of the three kernels over    *)
(* one batch.  The operand arrays are given; a step is one strip of a       *)
(* kernel's loop, on the vl elements that vsetvl grants.                    *)
(***************************************************************************)
MaxBatch == 3
VLMax == 2

\* the vector length granted for avl remaining elements
vsetvl(avl) ==
    IF avl <= VLMax THEN {avl}
    ELSE IF avl < 2 * VLMax THEN ((avl + 1) \div 2)..VLMax
    ELSE {VLMax}

\* 0.1f and 0.05f, the floats nearest to 0.1 and 0.05
FpTenth == Fp(13421773, 0 - 27)
FpTwentieth == Fp(13421773, 0 - 28)

\* operand rows of a batch: price, discount, quantity, supply cost
BatchRow(p, d, q, s) == [price |-> p, discount |-> d, quantity |-> q, supplycost |-> s]

BatchRows ==
    { BatchRow(Fp(1000, 0), FpTenth, Fp(1, 0), Fp(900, 0)),
      BatchRow(Fp(100, 0), FpZero, Fp(3, 0), Fp(10, 0)),
      BatchRow(Fp(1000, 0), FpTwentieth, Fp(3, 0), Fp(10, 0)) }

Batches == UNION { [1..n -> BatchRows] : n \in 0..MaxBatch }

Column(batch, col) == [i \in DOMAIN batch |-> batch[i][col]]

\* one strip of vl elements from index i (0-based) of an elementwise kernel
StripStore(result, i, vl, strip) ==
    [k \in DOMAIN result |-> IF k > i /\ k <= i + vl THEN strip[k] ELSE result[k]]

BPIdle ==
    /\ bp_pc = "idle"
    /\ bp_price = <<>> /\ bp_discount = <<>> /\ bp_quantity = <<>>
    /\ bp_supplycost = <<>>
    /\ bp_disc_price = <<>> /\ bp_supply_cost = <<>> /\ bp_profit = <<>>
    /\ bp_i = 0 /\ bp_vl = 0

BPInit ==
    \E batch \in Batches :
        /\ bp_pc = "disc_price"
        /\ bp_price = Column(batch, "price")
        /\ bp_discount = Column(batch, "discount")
        /\ bp_quantity = Column(batch, "quantity")
        /\ bp_supplycost = Column(batch, "supplycost")
        /\ bp_disc_price = [i \in DOMAIN batch |-> FpZero]
        /\ bp_supply_cost = [i \in DOMAIN batch |-> FpZero]
        /\ bp_profit = [i \in DOMAIN batch |-> FpZero]
        /\ bp_i = 0 /\ bp_vl = 0

batch_size == Len(bp_price)

BPOperands == <<bp_price, bp_discount, bp_quantity, bp_supplycost>>

\* compute_disc_price_rvv, one iteration of its loop
BPDiscPriceStrip ==
    /\ bp_pc = "disc_price" /\ bp_i < batch_size
    /\ \E vl \in vsetvl(batch_size - bp_i) :
          /\ bp_vl' = vl
          /\ bp_disc_price' =
                StripStore(bp_disc_price, bp_i, vl,
                           [k \in DOMAIN bp_price |->
                               vfmul(bp_price[k], vfsub(FpOne, bp_discount[k]))])
          /\ bp_i' = bp_i + vl
    /\ UNCHANGED <<bp_pc, BPOperands, bp_supply_cost, bp_profit>>
    /\ UNCHANGED bpOthers

BPDiscPriceEnd ==
    /\ bp_pc = "disc_price" /\ bp_i >= batch_size
    /\ bp_pc' = "supply_cost" /\ bp_i' = 0
    /\ UNCHANGED <<BPOperands, bp_disc_price, bp_supply_cost, bp_profit, bp_vl>>
    /\ UNCHANGED bpOthers

\* compute_supply_cost_rvv, one iteration of its loop
BPSupplyCostStrip ==
    /\ bp_pc = "supply_cost" /\ bp_i < batch_size
    /\ \E vl \in vsetvl(batch_size - bp_i) :
          /\ bp_vl' = vl
          /\ bp_supply_cost' =
                StripStore(bp_supply_cost, bp_i, vl,
                           [k \in DOMAIN bp_supplycost |->
                               vfmul(bp_supplycost[k], bp_quantity[k])])
          /\ bp_i' = bp_i + vl
    /\ UNCHANGED <<bp_pc, BPOperands, bp_disc_price, bp_profit>>
    /\ UNCHANGED bpOthers

BPSupplyCostEnd ==
    /\ bp_pc = "supply_cost" /\ bp_i >= batch_size
    /\ bp_pc' = "profit" /\ bp_i' = 0
    /\ UNCHANGED <<BPOperands, bp_disc_price, bp_supply_cost, bp_profit, bp_vl>>
    /\ UNCHANGED bpOthers

\* compute_profit_rvv, one iteration of its loop
BPProfitStrip ==
    /\ bp_pc = "profit" /\ bp_i < batch_size
    /\ \E vl \in vsetvl(batch_size - bp_i) :
          /\ bp_vl' = vl
          /\ bp_profit' =
                StripStore(bp_profit, bp_i, vl,
                           [k \in DOMAIN bp_disc_price |->
                               vfsub(bp_disc_price[k], bp_supply_cost[k])])
          /\ bp_i' = bp_i + vl
    /\ UNCHANGED <<bp_pc, BPOperands, bp_disc_price, bp_supply_cost>>
    /\ UNCHANGED bpOthers

BPProfitEnd ==
    /\ bp_pc = "profit" /\ bp_i >= batch_size
    /\ bp_pc' = "done"
    /\ UNCHANGED <<BPOperands, bp_disc_price, bp_supply_cost, bp_profit, bp_i, bp_vl>>
    /\ UNCHANGED bpOthers

BPNext ==
    \/ BPDiscPriceStrip
    \/ BPDiscPriceEnd
    \/ BPSupplyCostStrip
    \/ BPSupplyCostEnd
    \/ BPProfitStrip
    \/ BPProfitEnd

\* the scalar amount of query9 for one row, in double
ScalarAmount(price, discount, quantity, supplycost) ==
    DSub(DMul(price, DSub(FpOne, discount)), DMul(supplycost, quantity))

(***************************************************************************)
(* The reduction kernels: sum_rvv of rvv_query1 and compute_revenue_rvv of  *)
(* rvv_query6.  v_sum is the accumulator register, one value per lane.  An  *)
(* operation issued with vl below the lane count leaves the tail lanes of   *)
(* its result to the tail policy: the intrinsics used are tail agnostic, so *)
(* a tail lane keeps its value or is filled with ones.                      *)
(***************************************************************************)
MaxData == 3

Lanes == 1..VLMax

TailPolicies == {"undisturbed", "ones"}

\* the result register of an operation on the first vl lanes, written over v
WithTail(v, vl, body, tail) ==
    [l \in Lanes |-> IF l <= vl THEN body[l]
                     ELSE IF tail = "undisturbed" THEN v[l] ELSE FpNaN]

\* vle32: the vl elements from index i (0-based), one per lane
vle32(data, i, vl) == [l \in Lanes |-> IF l <= vl THEN data[i + l] ELSE FpZero]

\* vfredusum over all lanes, added to the scalar 0.0f
RECURSIVE vfredusum(_, _)
vfredusum(v, l) == IF l = 0 THEN FpZero ELSE vfadd(vfredusum(v, l - 1), v[l])

ReductionValues == {Fp(1, 0), Fp(2, 0), Fp(4, 0)}

ReductionRow(p, d) == [price |-> p, discount |-> d]

ReductionRows ==
    { ReductionRow(Fp(4, 0), Fp(1, 0 - 1)),
      ReductionRow(Fp(8, 0), Fp(1, 0 - 2)),
      ReductionRow(Fp(16, 0), Fp(1, 0 - 1)) }

RedIdle ==
    /\ red_pc = "idle" /\ red_price = <<>> /\ red_discount = <<>>
    /\ v_sum = <<>> /\ red_i = 0 /\ red_vl = 0 /\ red_result = FpZero

\* sum_rvv(data, n) or compute_revenue_rvv(price_data, discount_data, length)
\* is entered: the accumulator is zero in every lane
RedInit ==
    /\ \/ \E n \in 0..MaxData : \E data \in [1..n -> ReductionValues] :
             /\ red_pc = "sum_rvv"
             /\ red_price = data
             /\ red_discount = <<>>
       \/ \E n \in 0..MaxData : \E rows \in [1..n -> ReductionRows] :
             /\ red_pc = "compute_revenue_rvv"
             /\ red_price = Column(rows, "price")
             /\ red_discount = Column(rows, "discount")
    /\ v_sum = [l \in Lanes |-> FpZero]
    /\ red_i = 0 /\ red_vl = 0 /\ red_result = FpZero

\* sum_rvv, one iteration of its loop
SumRvvStrip ==
    /\ red_pc = "sum_rvv" /\ red_i < Len(red_price)
    /\ \E vl \in vsetvl(Len(red_price) - red_i), tail \in TailPolicies :
          LET v_data == vle32(red_price, red_i, vl)
          IN  /\ red_vl' = vl
              /\ v_sum' = WithTail(v_sum, vl,
                                   [l \in Lanes |-> vfadd(v_sum[l], v_data[l])], tail)
              /\ red_i' = red_i + vl
    /\ UNCHANGED <<red_pc, red_price, red_discount, red_result>>
    /\ UNCHANGED redOthers

\* sum_rvv, after the loop
SumRvvReduce ==
    /\ red_pc = "sum_rvv" /\ red_i >= Len(red_price)
    /\ red_result' = vfredusum(v_sum, VLMax)
    /\ red_pc' = "sum_rvv_done"
    /\ UNCHANGED <<red_price, red_discount, v_sum, red_i, red_vl>>
    /\ UNCHANGED redOthers

\* compute_revenue_rvv, one iteration of its loop
RevenueStrip ==
    /\ red_pc = "compute_revenue_rvv" /\ red_i < Len(red_price)
    /\ \E vl \in vsetvl(Len(red_price) - red_i), tail \in TailPolicies :
          LET v_price    == vle32(red_price, red_i, vl)
              v_discount == vle32(red_discount, red_i, vl)
              v_revenue  == [l \in Lanes |-> vfmul(v_price[l], v_discount[l])]
          IN  /\ red_vl' = vl
              /\ v_sum' = WithTail(v_sum, vl,
                                   [l \in Lanes |-> vfadd(v_sum[l], v_revenue[l])], tail)
              /\ red_i' = red_i + vl
    /\ UNCHANGED <<red_pc, red_price, red_discount, red_result>>
    /\ UNCHANGED redOthers

\* compute_revenue_rvv, after the loop
RevenueReduce ==
    /\ red_pc = "compute_revenue_rvv" /\ red_i >= Len(red_price)
    /\ red_result' = vfredusum(v_sum, VLMax)
    /\ red_pc' = "compute_revenue_rvv_done"
    /\ UNCHANGED <<red_price, red_discount, v_sum, red_i, red_vl>>
    /\ UNCHANGED redOthers

RedNext ==
    \/ SumRvvStrip
    \/ SumRvvReduce
    \/ RevenueStrip
    \/ RevenueReduce

(***************************************************************************)
(* query4: main, from the opening of the two files to the exit code.  A     *)
(* file is what the run finds on disk: whether Open, OpenFile and ReadTable *)
(* succeed, the columns of its schema and its rows.                         *)
(***************************************************************************)
Q4LineitemColumns == {"l_orderkey", "l_commitdate", "l_receiptdate"}
Q4OrdersColumns == {"o_orderkey", "o_orderdate", "o_orderpriority"}

ParquetFile(st, cols, tbl) == [status |-> st, columns |-> cols, table |-> tbl]

NoFile == ParquetFile("ok", {}, << <<>> >>)

Q4LineitemFiles ==
    { ParquetFile("ok", Q4LineitemColumns, t) : t \in Q4LineitemTables }
    \cup { ParquetFile("ok", Q4LineitemColumns \ {c},
                       << << Q4LineRow(1, 100, 200, {}) >> >>) :
              c \in {"l_orderkey", "l_commitdate"} }
    \cup { ParquetFile(st, Q4LineitemColumns, << << Q4LineRow(1, 100, 200, {}) >> >>) :
              st \in FileStatuses \ {"ok"} }

Q4OrdersFiles ==
    { ParquetFile("ok", Q4OrdersColumns, t) : t \in Q4OrdersTables }
    \cup { ParquetFile("ok", Q4OrdersColumns \ {c},
                       << << OrderRow(1, 8600, "1-URGENT", {}) >> >>) :
              c \in {"o_orderkey", "o_orderdate"} }
    \cup { ParquetFile(st, Q4OrdersColumns, << << OrderRow(1, 8600, "1-URGENT", {}) >> >>) :
              st \in FileStatuses \ {"ok"} }

\* GetColumnByName gives a null pointer for an absent column and main uses
\* it unchecked: the run is killed by the access, or the access reads
\* something that lets the loop over the chunks end at once
NullColumnOutcomes == {"segfault", "no_chunks"}

ExitSuccess == 0
ExitFailure == 1
ExitSegfault == 139

\* the body of the loop over the lineitem rows
QualifyingKeyStep(keys, row) ==
    IF row.nulls \cap Q4LineitemColumns # {} THEN keys
    ELSE IF row.l_commitdate < row.l_receiptdate THEN keys \cup {row.l_orderkey}
    ELSE keys

\* start_date and end_date of query4
q4_start_date == date_string_to_days(<<"1", "9", "9", "3", "-", "0", "7", "-", "0", "1">>, utc_offset)
q4_end_date == date_string_to_days(<<"1", "9", "9", "3", "-", "1", "0", "-", "0", "1">>, utc_offset)

\* the body of the loop over the orders rows
Q4PriorityStep(counts, keys, row) ==
    IF row.nulls \cap Q4OrdersColumns # {} THEN counts
    ELSE IF row.o_orderdate >= q4_start_date /\ row.o_orderdate < q4_end_date
         THEN PriorityCountStep(counts, keys, row.o_orderkey, row.o_orderpriority)
    ELSE counts

OrderPriorityCountLess(a, b) == StrRank[a.priority] < StrRank[b.priority]

Q4Idle ==
    /\ q4_pc = "idle"
    /\ q4_lineitem_file = NoFile /\ q4_orders_file = NoFile
    /\ q4_i = 0 /\ qualifying_orderkeys = {} /\ q4_priority_counts = EmptyMap
    /\ q4_rows_scanned = 0 /\ q4_sorted_results = <<>> /\ q4_exit = 0 - 1

Q4Init ==
    /\ q4_pc = "load_lineitem"
    /\ q4_lineitem_file \in Q4LineitemFiles
    /\ q4_orders_file \in Q4OrdersFiles
    /\ q4_i = 0 /\ qualifying_orderkeys = {} /\ q4_priority_counts = EmptyMap
    /\ q4_rows_scanned = 0 /\ q4_sorted_results = <<>> /\ q4_exit = 0 - 1

Q4Files == <<q4_lineitem_file, q4_orders_file>>

\* Open, OpenFile and ReadTable of the lineitem file: return 1 at the first
\* that fails
Q4LoadLineitem ==
    /\ q4_pc = "load_lineitem"
    /\ IF q4_lineitem_file.status = "ok"
       THEN q4_pc' = "lineitem_columns" /\ q4_exit' = q4_exit
       ELSE q4_pc' = "exited" /\ q4_exit' = ExitFailure
    /\ UNCHANGED <<Q4Files, q4_i, qualifying_orderkeys, q4_priority_counts,
                   q4_rows_scanned, q4_sorted_results>>
    /\ UNCHANGED q4Others

\* the three GetColumnByName and the first use of their results
Q4GetLineitemColumns ==
    /\ q4_pc = "lineitem_columns"
    /\ IF Q4LineitemColumns \subseteq q4_lineitem_file.columns
       THEN q4_pc' = "lineitem_rows" /\ q4_exit' = q4_exit
       ELSE \E outcome \in NullColumnOutcomes :
               IF outcome = "segfault"
               THEN q4_pc' = "exited" /\ q4_exit' = ExitSegfault
               ELSE q4_pc' = "load_orders" /\ q4_exit' = q4_exit
    /\ q4_i' = 0
    /\ UNCHANGED <<Q4Files, qualifying_orderkeys, q4_priority_counts,
                   q4_rows_scanned, q4_sorted_results>>
    /\ UNCHANGED q4Others

Q4LineitemRow ==
    /\ q4_pc = "lineitem_rows"
    /\ q4_i < Len(Flatten(q4_lineitem_file.table))
    /\ qualifying_orderkeys' =
          QualifyingKeyStep(qualifying_orderkeys, Flatten(q4_lineitem_file.table)[q4_i + 1])
    /\ q4_i' = q4_i + 1
    /\ q4_rows_scanned' = q4_rows_scanned + 1
    /\ UNCHANGED <<q4_pc, Q4Files, q4_priority_counts, q4_sorted_results, q4_exit>>
    /\ UNCHANGED q4Others

Q4LineitemEnd ==
    /\ q4_pc = "lineitem_rows"
    /\ q4_i >= Len(Flatten(q4_lineitem_file.table))
    /\ q4_pc' = "load_orders"
    /\ UNCHANGED <<Q4Files, q4_i, qualifying_orderkeys, q4_priority_counts,
                   q4_rows_scanned, q4_sorted_results, q4_exit>>
    /\ UNCHANGED q4Others

\* the load of the orders file, were a failure not to end the run
Q4LoadOrders_IgnoresFailure ==
    /\ q4_pc = "load_orders"
    /\ q4_pc' = "orders_columns" /\ q4_exit' = q4_exit
    /\ UNCHANGED <<Q4Files, q4_i, qualifying_orderkeys, q4_priority_counts,
                   q4_rows_scanned, q4_sorted_results>>
    /\ UNCHANGED q4Others

\* Open, OpenFile and ReadTable of the orders file
Q4LoadOrders ==
    /\ q4_pc = "load_orders"
    /\ IF q4_orders_file.status = "ok"
       THEN q4_pc' = "orders_columns" /\ q4_exit' = q4_exit
       ELSE q4_pc' = "exited" /\ q4_exit' = ExitFailure
    /\ UNCHANGED <<Q4Files, q4_i, qualifying_orderkeys, q4_priority_counts,
                   q4_rows_scanned, q4_sorted_results>>
    /\ UNCHANGED q4Others

Q4GetOrdersColumns ==
    /\ q4_pc = "orders_columns"
    /\ IF Q4OrdersColumns \subseteq q4_orders_file.columns
       THEN q4_pc' = "orders_rows" /\ q4_exit' = q4_exit
       ELSE \E outcome \in NullColumnOutcomes :
               IF outcome = "segfault"
               THEN q4_pc' = "exited" /\ q4_exit' = ExitSegfault
               ELSE q4_pc' = "sort" /\ q4_exit' = q4_exit
    /\ q4_i' = 0
    /\ UNCHANGED <<Q4Files, qualifying_orderkeys, q4_priority_counts,
                   q4_rows_scanned, q4_sorted_results>>
    /\ UNCHANGED q4Others

Q4OrdersRow ==
    /\ q4_pc = "orders_rows"
    /\ q4_i < Len(Flatten(q4_orders_file.table))
    /\ q4_priority_counts' =
          Q4PriorityStep(q4_priority_counts, qualifying_orderkeys,
                         Flatten(q4_orders_file.table)[q4_i + 1])
    /\ q4_i' = q4_i + 1
    /\ q4_rows_scanned' = q4_rows_scanned + 1
    /\ UNCHANGED <<q4_pc, Q4Files, qualifying_orderkeys, q4_sorted_results, q4_exit>>
    /\ UNCHANGED q4Others

Q4OrdersEnd ==
    /\ q4_pc = "orders_rows"
    /\ q4_i >= Len(Flatten(q4_orders_file.table))
    /\ q4_pc' = "sort"
    /\ UNCHANGED <<Q4Files, q4_i, qualifying_orderkeys, q4_priority_counts,
                   q4_rows_scanned, q4_sorted_results, q4_exit>>
    /\ UNCHANGED q4Others

\* the counts copied to a vector, std::sort, the result printed, return 0
Q4SortAndPrint ==
    /\ q4_pc = "sort"
    /\ LET rs == { [priority |-> k, count |-> q4_priority_counts[k]] :
                      k \in DOMAIN q4_priority_counts }
       IN  q4_sorted_results' =
              CHOOSE sq \in [1..Cardinality(rs) -> rs] :
                 /\ \A i, j \in 1..Cardinality(rs) : i # j => sq[i] # sq[j]
                 /\ \A i, j \in 1..Cardinality(rs) :
                        i < j => ~OrderPriorityCountLess(sq[j], sq[i])
    /\ q4_pc' = "printed"
    /\ q4_exit' = ExitSuccess
    /\ UNCHANGED <<Q4Files, q4_i, qualifying_orderkeys, q4_priority_counts,
                   q4_rows_scanned>>
    /\ UNCHANGED q4Others

Q4Next ==
    \/ Q4LoadLineitem
    \/ Q4GetLineitemColumns
    \/ Q4LineitemRow
    \/ Q4LineitemEnd
    \/ Q4LoadOrders
    \/ Q4GetOrdersColumns
    \/ Q4OrdersRow
    \/ Q4OrdersEnd
    \/ Q4SortAndPrint

(***************************************************************************)
(* query6: the loop over the lineitem chunks and rows.  The decimals are    *)
(* decoded by decimal128_bytes_to_double; the comparisons and the product   *)
(* are on the exact values (a decimal of at most three places and the       *)
(* literal it is compared with round to doubles in the same order).         *)
(* q6_decodes counts the calls of the decoder.                              *)
(***************************************************************************)
Q6StartDate == 8766
Q6EndDate == 9131

\* start_date and end_date of query6
q6_start_date == date_string_to_days(<<"1", "9", "9", "4", "-", "0", "1", "-", "0", "1">>, utc_offset)
q6_end_date == date_string_to_days(<<"1", "9", "9", "5", "-", "0", "1", "-", "0", "1">>, utc_offset)

min_discount == <<1, 20>>
max_discount == <<7, 100>>
max_quantity == <<24, 1>>

Q6Columns == {"l_quantity", "l_extendedprice", "l_discount"}
Q6NullChecked == {"l_shipdate"} \cup Q6Columns

Q6Row(sd, q, p, d, nl) ==
    [l_shipdate |-> sd, l_quantity |-> q, l_extendedprice |-> p, l_discount |-> d,
     nulls |-> nl]

Q6NoRow == Q6Row(0, 0, 0, 0, {})

\* 8825 is 1994-03-01
Q6LineRows ==
    { Q6Row(8825, 1000, 100000, 6, {}),
      Q6Row(8825, 1000, 100000, 5, {}),
      Q6Row(8825, 1000, 100000, 7, {}),
      Q6Row(8825, 1000, 100000, 4, {}),
      Q6Row(8825, 1000, 100000, 8, {}),
      Q6Row(8825, 2400, 100000, 6, {}),
      Q6Row(8825, 2000, 2500, 50, {}),
      Q6Row(8825, 2000, 2500, 70, {}),
      Q6Row(Q6EndDate, 1000, 100000, 6, {}),
      Q6Row(Q6StartDate, 1000, 100000, 6, {}),
      Q6Row(Q6StartDate - 1, 1000, 100000, 6, {}),
      Q6Row(8825, 1000, 100000, 6, {"l_quantity"}),
      Q6Row(8825, 1000, 100000, 6, {"l_discount"}),
      Q6Row(8825, 1000, 100000, 6, {"l_shipdate"}) }

Q6TypeChoices ==
    { [c \in Q6Columns |-> Decimal128Type(2)],
      [l_quantity |-> Decimal128Type(2), l_extendedprice |-> Decimal128Type(1),
       l_discount |-> Decimal128Type(3)] }

\* the condition of the if on the decoded values
Q6RowPasses(shipdate, quantity, discount) ==
    /\ shipdate >= q6_start_date /\ shipdate < q6_end_date
    /\ RLeq(min_discount, discount) /\ RLeq(discount, max_discount)
    /\ RLt(quantity, max_quantity)

Q6Idle ==
    /\ q6_pc = "idle"
    /\ q6_types = [c \in Q6Columns |-> Decimal128Type(2)]
    /\ q6_scales = [c \in Q6Columns |-> DefaultScale]
    /\ q6_chunk_idx = 0
    /\ total_revenue = R0
    /\ q6_rows_processed = 0 /\ q6_rows_qualified = 0
    /\ q6_row = Q6NoRow /\ q6_decodes = 0

Q6Init ==
    /\ q6_pc = "chunks"
    /\ q6_types \in Q6TypeChoices
    /\ q6_scales = [c \in Q6Columns |-> DefaultScale]
    /\ q6_chunk_idx = 0
    /\ total_revenue = R0
    /\ q6_rows_processed = 0 /\ q6_rows_qualified = 0
    /\ q6_row = Q6NoRow /\ q6_decodes = 0

\* for (chunk_idx ...): the three scales of the chunk
Q6ChunkStart ==
    /\ q6_pc = "chunks"
    /\ q6_chunk_idx < MaxChunks
    /\ q6_chunk_idx' = q6_chunk_idx + 1
    /\ q6_scales' = [c \in Q6Columns |-> ChunkScale(q6_types[c])]
    /\ q6_pc' = "rows"
    /\ UNCHANGED <<q6_types, total_revenue, q6_rows_processed, q6_rows_qualified,
                   q6_row, q6_decodes>>
    /\ UNCHANGED q6Others

\* one iteration of for (i < num_rows)
Q6LineitemRow ==
    /\ q6_pc = "rows"
    /\ q6_rows_processed < MaxLineRows
    /\ \E row \in Q6LineRows :
          /\ q6_row' = row
          /\ q6_rows_processed' = q6_rows_processed + 1
          /\ IF row.nulls \cap Q6NullChecked # {}
             THEN UNCHANGED <<total_revenue, q6_rows_qualified, q6_decodes>>
             ELSE LET quantity      == ScalarDecoded[row.l_quantity, q6_scales.l_quantity]
                      extendedprice == ScalarDecoded[row.l_extendedprice,
                                                     q6_scales.l_extendedprice]
                      discount      == ScalarDecoded[row.l_discount, q6_scales.l_discount]
                  IN  /\ q6_decodes' = q6_decodes + 3
                      /\ IF Q6RowPasses(row.l_shipdate, quantity, discount)
                         THEN /\ total_revenue' =
                                    RAdd(total_revenue, RMul(extendedprice, discount))
                              /\ q6_rows_qualified' = q6_rows_qualified + 1
                         ELSE UNCHANGED <<total_revenue, q6_rows_qualified>>
    /\ UNCHANGED <<q6_pc, q6_types, q6_scales, q6_chunk_idx>>
    /\ UNCHANGED q6Others

Q6ChunkEnd ==
    /\ q6_pc = "rows"
    /\ q6_pc' = "chunks"
    /\ UNCHANGED <<q6_types, q6_scales, q6_chunk_idx, total_revenue,
                   q6_rows_processed, q6_rows_qualified, q6_row, q6_decodes>>
    /\ UNCHANGED q6Others

\* the result printed, return 0
Q6Print ==
    /\ q6_pc = "chunks"
    /\ q6_pc' = "done"
    /\ UNCHANGED <<q6_types, q6_scales, q6_chunk_idx, total_revenue,
                   q6_rows_processed, q6_rows_qualified, q6_row, q6_decodes>>
    /\ UNCHANGED q6Others

Q6Next ==
    \/ Q6ChunkStart
    \/ Q6LineitemRow
    \/ Q6ChunkEnd
    \/ Q6Print

(***************************************************************************)
(* rvv_query9: the loop over the lineitem chunks that collects the          *)
(* qualifying rows of a chunk in batches.  A row is the outcome of its null *)
(* test and its four index lookups, with the nation key and the year the    *)
(* lookups give.  The four batch vectors grow and shrink together and are   *)
(* one sequence of rows here; profit_results[idx] is the profit of the row  *)
(* at idx, and a sum of profits is kept as the sequence of its addends.     *)
(***************************************************************************)
BATCH_SIZE == 2
MaxBatchRows == 5

B9Row(nk, y, q) == [nationkey |-> nk, year |-> y, qualifies |-> q]

B9LineRows ==
    { B9Row(1, 1995, TRUE), B9Row(2, 1995, TRUE), B9Row(1, 1996, TRUE),
      B9Row(1, 1995, FALSE) }

\* nation_map[nationkey]
B9NationName(nationkey) == IF nationkey = 1 THEN "FRANCE" ELSE "PERU"

\* the addends of nation_year_profit for one key: profit_results[idx] for
\* each idx of the key's list
B9KeyProfit(batch, indices) == [j \in DOMAIN indices |-> batch[indices[j] + 1]]

\* profit_by_nation_year[result_key] += nation_year_profit for every key of
\* nation_year_indices
RECURSIVE AccumulateBatch(_, _, _, _)
AccumulateBatch(profit, batch, indices, keys) ==
    IF keys = {} THEN profit
    ELSE LET key == CHOOSE k \in keys : TRUE
             result_key == <<B9NationName(key[1]), key[2]>>
             m == MapIndex(profit, result_key, <<>>)
         IN  AccumulateBatch(
                [m EXCEPT ![result_key] = @ \o B9KeyProfit(batch, indices[key])],
                batch, indices, keys \ {key})

B9Idle ==
    /\ b9_pc = "idle"
    /\ b9_chunk_idx = 0 /\ b9_num_rows = 0 /\ b9_i = 0
    /\ b9_batch = <<>> /\ nation_year_indices = EmptyMap
    /\ b9_profit = EmptyMap
    /\ b9_rows_processed = 0 /\ b9_rows_qualified = 0

B9Init ==
    /\ b9_pc = "chunks"
    /\ b9_chunk_idx = 0 /\ b9_num_rows = 0 /\ b9_i = 0
    /\ b9_batch = <<>> /\ nation_year_indices = EmptyMap
    /\ b9_profit = EmptyMap
    /\ b9_rows_processed = 0 /\ b9_rows_qualified = 0

\* for (chunk_idx ...): the chunk's length, the empty vectors and index map
B9ChunkStart ==
    /\ b9_pc = "chunks"
    /\ b9_chunk_idx < MaxChunks
    /\ b9_chunk_idx' = b9_chunk_idx + 1
    /\ b9_num_rows' \in 0..(IF MaxBatchRows - b9_rows_processed < MaxLineRows
                            THEN MaxBatchRows - b9_rows_processed ELSE MaxLineRows)
    /\ b9_i' = 0
    /\ b9_batch' = <<>>
    /\ nation_year_indices' = EmptyMap
    /\ b9_pc' = "rows"
    /\ UNCHANGED <<b9_profit, b9_rows_processed, b9_rows_qualified>>
    /\ UNCHANGED b9Others

\* one iteration of for (i < num_rows), with the flush of a full batch
B9LineitemRow ==
    /\ b9_pc = "rows"
    /\ b9_i < b9_num_rows
    /\ b9_i' = b9_i + 1
    /\ b9_rows_processed' = b9_rows_processed + 1
    /\ \E row \in B9LineRows :
          IF ~row.qualifies
          THEN UNCHANGED <<b9_batch, nation_year_indices, b9_profit, b9_rows_qualified>>
          ELSE LET item == [n |-> b9_rows_processed + 1, nationkey |-> row.nationkey,
                            year |-> row.year]
                   batch == Append(b9_batch, item)
                   key == <<row.nationkey, row.year>>
                   batch_index == Len(batch) - 1
                   m == MapIndex(nation_year_indices, key, <<>>)
                   indices == [m EXCEPT ![key] = Append(@, batch_index)]
               IN  /\ b9_rows_qualified' = b9_rows_qualified + 1
                   /\ IF Len(batch) >= BATCH_SIZE
                      THEN /\ b9_profit' = AccumulateBatch(b9_profit, batch, indices,
                                                           DOMAIN indices)
                           /\ b9_batch' = <<>>
                           /\ nation_year_indices' = EmptyMap
                      ELSE /\ b9_batch' = batch
                           /\ nation_year_indices' = indices
                           /\ UNCHANGED b9_profit
    /\ UNCHANGED <<b9_pc, b9_chunk_idx, b9_num_rows>>
    /\ UNCHANGED b9Others

\* the end of the chunk without the flush of the remaining rows
B9ChunkEnd_NoFinalFlush ==
    /\ b9_pc = "rows"
    /\ b9_i = b9_num_rows
    /\ b9_batch' = <<>>
    /\ nation_year_indices' = EmptyMap
    /\ b9_pc' = "chunks"
    /\ UNCHANGED <<b9_chunk_idx, b9_num_rows, b9_i, b9_profit, b9_rows_processed,
                   b9_rows_qualified>>
    /\ UNCHANGED b9Others

\* if (!price_data.empty()): the remaining rows; the vectors and the index
\* map end with the chunk's scope
B9ChunkEnd ==
    /\ b9_pc = "rows"
    /\ b9_i = b9_num_rows
    /\ b9_profit' = IF b9_batch # <<>>
                    THEN AccumulateBatch(b9_profit, b9_batch, nation_year_indices,
                                         DOMAIN nation_year_indices)
                    ELSE b9_profit
    /\ b9_batch' = <<>>
    /\ nation_year_indices' = EmptyMap
    /\ b9_pc' = "chunks"
    /\ UNCHANGED <<b9_chunk_idx, b9_num_rows, b9_i, b9_rows_processed,
                   b9_rows_qualified>>
    /\ UNCHANGED b9Others

\* the results sorted and printed
B9Print ==
    /\ b9_pc = "chunks"
    /\ b9_pc' = "done"
    /\ UNCHANGED <<b9_chunk_idx, b9_num_rows, b9_i, b9_batch, nation_year_indices,
                   b9_profit, b9_rows_processed, b9_rows_qualified>>
    /\ UNCHANGED b9Others

B9Next ==
    \/ B9ChunkStart
    \/ B9LineitemRow
    \/ B9ChunkEnd
    \/ B9Print

(***************************************************************************)
(* The strip-mined loop of an elementwise kernel (compute_disc_price_rvv,   *)
(* compute_supply_cost_rvv, compute_profit_rvv, compute_charge_rvv): n      *)
(* elements, a hardware of vector length sm_vlmax.  sm_loads and sm_stores  *)
(* count, for every index from 0 (kept at position index + 1), the loads    *)
(* from the operand arrays and the stores to result at that index.          *)
(***************************************************************************)
MaxStripLen == 6
MaxVLMax == 4

\* the indices that are watched: those of the arrays and the MaxVLMax beyond
StripIndices == 1..(MaxStripLen + MaxVLMax)

\* a grant that does not look at the remaining length
vsetvl_e32m8_IgnoresAvl(avl, vlmax) == 1..vlmax

\* __riscv_vsetvl_e32m8(avl) on a hardware of vector length vlmax, avl > 0
vsetvl_e32m8(avl, vlmax) == 1..(IF avl < vlmax THEN avl ELSE vlmax)

\* the elements i .. i + vl - 1 of an array are accessed once more
StripAccess(counts, i, vl) ==
    [k \in StripIndices |-> IF k > i /\ k <= i + vl THEN counts[k] + 1 ELSE counts[k]]

StripIdle ==
    /\ sm_pc = "idle"
    /\ sm_n = 0 /\ sm_vlmax = 1 /\ sm_i = 0 /\ sm_vl = 0
    /\ sm_loads = [k \in StripIndices |-> 0]
    /\ sm_stores = [k \in StripIndices |-> 0]

StripInit ==
    /\ sm_pc = "loop"
    /\ sm_n \in 0..MaxStripLen
    /\ sm_vlmax \in 1..MaxVLMax
    /\ sm_i = 0 /\ sm_vl = 0
    /\ sm_loads = [k \in StripIndices |-> 0]
    /\ sm_stores = [k \in StripIndices |-> 0]

\* one iteration: vsetvl, the loads at extendedprice + i and discount + i,
\* the store at result + i, i += vl
StripIteration ==
    /\ sm_pc = "loop" /\ sm_i < sm_n
    /\ \E vl \in vsetvl_e32m8(sm_n - sm_i, sm_vlmax) :
          /\ sm_vl' = vl
          /\ sm_loads' = StripAccess(sm_loads, sm_i, vl)
          /\ sm_stores' = StripAccess(sm_stores, sm_i, vl)
          /\ sm_i' = sm_i + vl
    /\ UNCHANGED <<sm_pc, sm_n, sm_vlmax>>
    /\ UNCHANGED smOthers

\* i < n is false: the kernel returns
StripExit ==
    /\ sm_pc = "loop" /\ sm_i >= sm_n
    /\ sm_pc' = "done"
    /\ UNCHANGED <<sm_n, sm_vlmax, sm_i, sm_vl, sm_loads, sm_stores>>
    /\ UNCHANGED smOthers

StripNext ==
    \/ StripIteration
    \/ StripExit

(***************************************************************************)
(* The bit mask kernels check_late_delivery_rvv (rvv_query4) and            *)
(* check_shipping_conditions_rvv (rvv_query12) on arrays of length          *)
(* elements.  The caller gives (length + 7) / 8 zero bytes; mk_results has  *)
(* one byte more, which stands for the memory behind the buffer.            *)
(***************************************************************************)
MaxMaskLen == 10

\* ship, commit and receipt date of an element
MaskElements ==
    << <<8700, 8800, 8900>>, <<8700, 8900, 8800>>, <<8800, 8800, 8900>>,
       <<8700, 8800, Q12EndDate>>, <<8000, 8100, 8200>> >>

MaskArrays(n) ==
    { [k \in 1..n |-> MaskElements[((k + p) % Len(MaskElements)) + 1]] :
         p \in 1..Len(MaskElements) }
    \cup { [k \in 1..n |-> MaskElements[q]] : q \in 1..Len(MaskElements) }

\* receiptdate[idx] <= end_date in place of <
ShippingConditionsStep_ReceiptAtEndDate(results, idx, shipdate, commitdate, receiptdate) ==
    IF /\ commitdate < receiptdate /\ shipdate < commitdate
       /\ receiptdate >= Q12StartDate /\ receiptdate <= Q12EndDate
    THEN SetBit(results, idx) ELSE results

\* the body of the inner loop of check_shipping_conditions_rvv at index idx
ShippingConditionsStep(results, idx, shipdate, commitdate, receiptdate) ==
    IF /\ commitdate < receiptdate /\ shipdate < commitdate
       /\ receiptdate >= Q12StartDate /\ receiptdate < Q12EndDate
    THEN SetBit(results, idx) ELSE results

\* for (j = 0; j < vl; j++) of either kernel, from j on
RECURSIVE MaskStrip(_, _, _, _)
MaskStrip(results, i, j, vl) ==
    IF j >= vl THEN results
    ELSE MaskStrip(
            IF mk_kernel = "late"
            THEN LateDeliveryStep(results, i + j, mk_commitdate[i + j + 1],
                                  mk_receiptdate[i + j + 1])
            ELSE ShippingConditionsStep(results, i + j, mk_shipdate[i + j + 1],
                                        mk_commitdate[i + j + 1],
                                        mk_receiptdate[i + j + 1]),
            i, j + 1, vl)

mk_length == Len(mk_commitdate)

MaskIdle ==
    /\ mk_pc = "idle" /\ mk_kernel = "late"
    /\ mk_shipdate = <<>> /\ mk_commitdate = <<>> /\ mk_receiptdate = <<>>
    /\ mk_results = <<>> /\ mk_i = 0 /\ mk_vl = 0

MaskInit ==
    \E n \in 0..MaxMaskLen : \E a \in MaskArrays(n) :
        /\ mk_pc = "loop"
        /\ mk_kernel \in {"late", "shipping"}
        /\ mk_shipdate = [k \in 1..n |-> a[k][1]]
        /\ mk_commitdate = [k \in 1..n |-> a[k][2]]
        /\ mk_receiptdate = [k \in 1..n |-> a[k][3]]
        /\ mk_results = Zeros((n + ByteBits - 1) \div ByteBits + 1)
        /\ mk_i = 0 /\ mk_vl = 0

\* one iteration of the outer loop
MaskIteration ==
    /\ mk_pc = "loop" /\ mk_i < mk_length
    /\ \E vl \in vsetvl_e32m8(mk_length - mk_i, VLMax) :
          /\ mk_vl' = vl
          /\ mk_results' = MaskStrip(mk_results, mk_i, 0, vl)
          /\ mk_i' = mk_i + vl
    /\ UNCHANGED <<mk_pc, mk_kernel, mk_shipdate, mk_commitdate, mk_receiptdate>>
    /\ UNCHANGED mkOthers

MaskExit ==
    /\ mk_pc = "loop" /\ mk_i >= mk_length
    /\ mk_pc' = "done"
    /\ UNCHANGED <<mk_kernel, mk_shipdate, mk_commitdate, mk_receiptdate, mk_results,
                   mk_i, mk_vl>>
    /\ UNCHANGED mkOthers

MaskNext ==
    \/ MaskIteration
    \/ MaskExit

(***************************************************************************)
(* Properties of query9.                                                   *)
(***************************************************************************)
FR95 == <<"FRANCE", 1995>>

\* the row is not null in a checked column and misses one of the indices,
\* the nation index included
Q9Unmatched(row) ==
    /\ row.nulls \cap Q9NullChecked = {}
    /\ \/ row.l_partkey \notin green_parts
       \/ row.l_orderkey \notin DOMAIN order_year_map
       \/ row.l_suppkey \notin DOMAIN supplier_nation_map
       \/ <<row.l_partkey, row.l_suppkey>> \notin DOMAIN partsupp_cost_map
       \/ /\ row.l_suppkey \in DOMAIN supplier_nation_map
          /\ supplier_nation_map[row.l_suppkey] \notin DOMAIN nation_map

\* C5: a lineitem row whose join key has no match in one of the build-side
\* indices (orders, supplier, part/partsupp, nation) adds nothing to any output
\* group and creates no output group.
C5_UnmatchedRowAddsNothing ==
    [][(q9_rows_processed' = q9_rows_processed + 1 /\ Q9Unmatched(q9_row'))
          => profit_by_nation_year' = profit_by_nation_year]_vars

RECURSIVE SumApplied(_, _)
SumApplied(sq, key) ==
    IF sq = <<>> THEN <<0, 1>>
    ELSE LET rest == SumApplied(Tail(sq), key)
         IN  IF Head(sq).key = key THEN RAdd(Head(sq).amount, rest) ELSE rest

\* C8: each group's accumulator is the sum of exactly the contributions applied
\* to its key, negative ones included, and a group exists if and only if an
\* update was applied to its key.
C8_AccumulatorIsSumOfContributions ==
    /\ DOMAIN profit_by_nation_year = {q9_applied[i].key : i \in DOMAIN q9_applied}
    /\ \A k \in DOMAIN profit_by_nation_year :
          profit_by_nation_year[k] = SumApplied(q9_applied, k)

\* contributions 100, -20 and 5 applied to ("FRANCE", 1995) give 85
C8_Witness ==
    /\ q9_applied = << [key |-> FR95, amount |-> <<100, 1>>],
                       [key |-> FR95, amount |-> <<0 - 20, 1>>],
                       [key |-> FR95, amount |-> <<5, 1>>] >>
    /\ FR95 \in DOMAIN profit_by_nation_year
    /\ profit_by_nation_year[FR95] = <<85, 1>>

\* C9 as stated: no update decreases any accumulator of any group.
C9_AccumulatorsNeverDecrease ==
    [][/\ q9_rows_processed' >= q9_rows_processed
       /\ q9_rows_qualified' >= q9_rows_qualified
       /\ \A k \in DOMAIN profit_by_nation_year :
             /\ k \in DOMAIN profit_by_nation_year'
             /\ RLeq(profit_by_nation_year[k], profit_by_nation_year'[k])]_vars

\* C9 amended: the counts never decrease, no group is removed, and a sum
\* decreases only in the update that adds a negative contribution to it.
C9_DecreaseOnlyByNegativeContribution ==
    [][/\ q9_rows_processed' >= q9_rows_processed
       /\ q9_rows_qualified' >= q9_rows_qualified
       /\ \A k \in DOMAIN profit_by_nation_year :
             /\ k \in DOMAIN profit_by_nation_year'
             /\ RLt(profit_by_nation_year'[k], profit_by_nation_year[k]) =>
                   /\ Len(q9_applied') = Len(q9_applied) + 1
                   /\ q9_applied'[Len(q9_applied')].key = k
                   /\ RLt(q9_applied'[Len(q9_applied')].amount, <<0, 1>>)]_vars

\* a negative contribution has lowered a sum that a positive one had raised
C9_Witness ==
    /\ Len(q9_applied) = 2
    /\ q9_applied[1] = [key |-> FR95, amount |-> <<100, 1>>]
    /\ q9_applied[2] = [key |-> FR95, amount |-> <<0 - 20, 1>>]
    /\ profit_by_nation_year[FR95] = <<80, 1>>

(***************************************************************************)
(* Properties of query1.                                                   *)
(***************************************************************************)
Q1AggregationColumns ==
    {"l_quantity", "l_extendedprice", "l_discount", "l_tax", "l_returnflag",
     "l_linestatus"}

\* C4: a row with a null in a column the aggregation needs (l_quantity,
\* l_extendedprice, l_discount, l_tax, l_returnflag, l_linestatus) is added to
\* no group and to no count.
C4_NullOperandRowNotAggregated ==
    [][(q1_rows_processed' = q1_rows_processed + 1
          /\ q1_row'.nulls \cap Q1AggregationColumns # {})
          => (groups' = groups /\ rows_accepted' = rows_accepted)]_vars

Q1Scanning == q1_pc \in {"chunks", "rows"}

Q1SumsOf(agg) ==
    <<agg.sum_qty, agg.sum_base_price, agg.sum_disc_price, agg.sum_charge,
      agg.sum_disc, agg.count_order>>

\* C10: the averages are computed only at finalize: during the scan every avg_*
\* field keeps its initial value 0, after finalize every group has count >= 1,
\* avg_qty = sum_qty / count, avg_price = sum_base_price / count and
\* avg_disc = sum_disc / count, and finalize changes no sum and no count.
C10_AveragesOnlyAtFinalize ==
    /\ [](Q1Scanning => \A k \in DOMAIN groups :
             /\ groups[k].avg_qty = R0
             /\ groups[k].avg_price = R0
             /\ groups[k].avg_disc = R0)
    /\ [](~Q1Scanning => \A k \in DOMAIN groups :
             /\ groups[k].count_order >= 1
             /\ groups[k].avg_qty = RDivInt(groups[k].sum_qty, groups[k].count_order)
             /\ groups[k].avg_price =
                   RDivInt(groups[k].sum_base_price, groups[k].count_order)
             /\ groups[k].avg_disc = RDivInt(groups[k].sum_disc, groups[k].count_order))
    /\ [][(Q1Scanning /\ ~Q1Scanning') =>
             /\ DOMAIN groups' = DOMAIN groups
             /\ \A k \in DOMAIN groups : Q1SumsOf(groups'[k]) = Q1SumsOf(groups[k])]_vars

\* two rows of quantities 1.00 and 2.00 finalized to the average 3/2
C10_Witness ==
    /\ q1_pc = "finalized"
    /\ <<"A", "F">> \in DOMAIN groups
    /\ groups[<<"A", "F">>].count_order = 2
    /\ groups[<<"A", "F">>].sum_qty = <<3, 1>>
    /\ groups[<<"A", "F">>].avg_qty = <<3, 2>>

(***************************************************************************)
(* Properties of rvv_query1 and rvv_query4.                                *)
(***************************************************************************)
\* the rows of chunk(0) the conversion loop has passed
RVV1Converted ==
    IF rvv1_pc \in {"idle", "filter"} THEN {}
    ELSE IF rvv1_pc = "decode" THEN 1..rvv1_i
    ELSE 1..RVV1NumRows

RVV1OwnScale(data, col, i) ==
    data[i] = Decimal128ToDouble(filtered_table[1][i][col], ChunkScale(rvv1_types[col]))

\* C2: every decimal column value is decoded with the scale of that column's own
\* type when the column is DECIMAL128 and with the default scale 2 otherwise,
\* never with another column's scale.
C2_EachColumnDecodedWithOwnScale ==
    \A i \in RVV1Converted :
        i <= Len(filtered_table[1]) =>
            /\ RVV1OwnScale(price_data, "l_extendedprice", i)
            /\ RVV1OwnScale(discount_data, "l_discount", i)
            /\ RVV1OwnScale(tax_data, "l_tax", i)
            /\ RVV1OwnScale(quantity_data, "l_quantity", i)

Q4PredicateColumns == {"l_commitdate", "l_receiptdate"}

\* C3: a row with a null in a column the filter predicate reads (here
\* l_commitdate or l_receiptdate) never qualifies: it adds nothing to the key
\* set, whatever the null slots hold.
C3_NullPredicateRowNeverQualifies ==
    [][(/\ rvv4_pc = "keys"
        /\ rvv4_i' = rvv4_i + 1
        /\ rvv4_i + 1 <= Len(rvv4_lineitem[1])
        /\ rvv4_lineitem[1][rvv4_i + 1].nulls \cap Q4PredicateColumns # {})
          => late_order_keys' = late_order_keys]_vars

RECURSIVE Q4LateKeys(_, _)
Q4LateKeys(keys, rows) ==
    IF rows = <<>> THEN keys
    ELSE Q4LateKeys(
            LateKeyStep(keys,
                        TestBit(LateDeliveryStep(<<0>>, 0, Head(rows).l_commitdate,
                                                 Head(rows).l_receiptdate), 0),
                        Head(rows).l_orderkey),
            Tail(rows))

RECURSIVE Q4Counts(_, _, _)
Q4Counts(counts, keys, rows) ==
    IF rows = <<>> THEN counts
    ELSE Q4Counts(PriorityCountStep(counts, keys, Head(rows).o_orderkey,
                                    Head(rows).o_orderpriority),
                  keys, Tail(rows))

\* the counts the same steps give when each table is one chunk
Q4OneChunkCounts(orders, lineitem) ==
    Q4Counts(EmptyMap, Q4LateKeys({}, Flatten(lineitem)),
             SelectRows(OrderDateFilter, Flatten(orders)))

\* C7: splitting a chunk of a table into consecutive chunks with the same rows
\* (or permuting the chunks) leaves the final counts unchanged: the counts of a
\* chunked table are those of the same rows in one chunk.
C7_ChunkLayoutLeavesCountsUnchanged ==
    rvv4_pc = "done" =>
        priority_counts = Q4OneChunkCounts(rvv4_orders, rvv4_lineitem)

(***************************************************************************)
(* Properties of query12.                                                  *)
(***************************************************************************)
RECURSIVE CountMatches(_, _)
CountMatches(rows, key) ==
    IF rows = <<>> THEN 0
    ELSE (IF /\ Head(rows).nulls = {}
             /\ Head(rows).o_orderkey = key THEN 1 ELSE 0)
            + CountMatches(Tail(rows), key)

RECURSIVE SumOver(_, _)
SumOver(f, ks) ==
    IF ks = {} THEN 0
    ELSE LET k == CHOOSE x \in ks : TRUE IN f[k] + SumOver(f, ks \ {k})

Q12JoinedRows(m) ==
    SumOver([k \in DOMAIN m |-> m[k].high_line_count + m[k].low_line_count], DOMAIN m)

\* C6: the index maps a key to all the build rows that carry it: a probe row
\* that passes the filter yields one joined row per orders row with its key,
\* k of them when k orders rows carry the key and none when no row does.
C6_OneJoinedRowPerBuildRow ==
    [][(q12_rows_processed' = q12_rows_processed + 1 /\ Q12RowPasses(q12_row'))
          => Q12JoinedRows(results_by_shipmode') =
                Q12JoinedRows(results_by_shipmode)
                   + CountMatches(Flatten(q12_orders), q12_row'.l_orderkey)]_vars

(***************************************************************************)
(* Properties of the result order of query9.                               *)
(***************************************************************************)
FR96 == <<"FRANCE", 1996>>

Q9KeyOf(r) == <<r.nation, r.o_year>>

Q9AsResult(k) == [nation |-> k[1], o_year |-> k[2], sum_profit |-> R0]

\* C11: the result rows are in a total order, ascending by nation and, within
\* one nation, descending by year; of two distinct group keys exactly one
\* precedes the other, and the result sequence holds every group once, so that
\* it is fixed by the set of groups and not by the order of their creation.
C11_ResultOrderIsTotal ==
    /\ \A a, b \in DOMAIN profit_by_nation_year :
          a # b => (Query9ResultLess(Q9AsResult(a), Q9AsResult(b))
                       # Query9ResultLess(Q9AsResult(b), Q9AsResult(a)))
    /\ q9_pc = "done" =>
          /\ Len(q9_results) = Cardinality(DOMAIN profit_by_nation_year)
          /\ {Q9KeyOf(q9_results[i]) : i \in DOMAIN q9_results}
                = DOMAIN profit_by_nation_year
          /\ \A i, j \in DOMAIN q9_results :
                i < j =>
                   IF q9_results[i].nation = q9_results[j].nation
                   THEN q9_results[i].o_year > q9_results[j].o_year
                   ELSE StrRank[q9_results[i].nation] < StrRank[q9_results[j].nation]

\* the group of 1995 was created before the group of 1996, and comes after it
C11_Witness ==
    /\ q9_pc = "done"
    /\ Len(q9_applied) >= 2
    /\ q9_applied[1].key = FR95
    /\ q9_applied[2].key = FR96
    /\ Len(q9_results) = 2
    /\ Q9KeyOf(q9_results[1]) = FR96
    /\ Q9KeyOf(q9_results[2]) = FR95

(***************************************************************************)
(* Properties of the kernels of rvv_query9.                                *)
(***************************************************************************)


\* |k - s| <= 1e-5 * |s|
WithinTolerance(k, s) ==
    FpAbsLeq(FpMulExact(FpSubExact(k, s), Fp(100000, 0)), s)

BPReference(i) ==
    ScalarAmount(bp_price[i], bp_discount[i], bp_quantity[i], bp_supplycost[i])

\* C12: when the kernel chain has run over a batch, the profit at every index
\* is within relative tolerance 1e-5 of the scalar amount
\* price*(1-discount) - supplycost*quantity of the same operands.
C12_KernelChainMatchesScalar ==
    bp_pc = "done" =>
        \A i \in DOMAIN bp_profit : WithinTolerance(bp_profit[i], BPReference(i))

(***************************************************************************)
(* Properties of the reduction kernels.                                    *)
(***************************************************************************)
RECURSIVE SumOfFirst(_, _)
SumOfFirst(data, n) ==
    IF n = 0 THEN FpZero ELSE vfadd(SumOfFirst(data, n - 1), data[n])

ProductsOf(price, discount) == [i \in DOMAIN price |-> vfmul(price[i], discount[i])]

\* C13: sum_rvv returns the sum of all n elements and compute_revenue_rvv the
\* sum of price[i]*discount[i] over all n elements, for every n >= 0 and
\* whatever the hardware does with the tail lanes.
C13_ReductionIncludesEveryElement ==
    /\ red_pc = "sum_rvv_done" =>
          red_result = SumOfFirst(red_price, Len(red_price))
    /\ red_pc = "compute_revenue_rvv_done" =>
          red_result = SumOfFirst(ProductsOf(red_price, red_discount), Len(red_price))

(***************************************************************************)
(* Properties of the loading of query4.                                    *)
(***************************************************************************)
Q4ColumnAbsent ==
    \/ (q4_lineitem_file.status = "ok"
          /\ ~(Q4LineitemColumns \subseteq q4_lineitem_file.columns))
    \/ (q4_lineitem_file.status = "ok" /\ q4_orders_file.status = "ok"
          /\ ~(Q4OrdersColumns \subseteq q4_orders_file.columns))

Q4Ended == q4_pc \in {"exited", "printed"}

\* C14: when a required column is absent from an input table, the run ends
\* with a reported error and, when it does, no row has been scanned, no
\* entry is in the join index and no count has been updated.
C14_AbsentColumnFailsBeforeAnyRow ==
    (Q4ColumnAbsent /\ Q4Ended) =>
        /\ q4_exit = ExitFailure
        /\ q4_rows_scanned = 0
        /\ qualifying_orderkeys = {}
        /\ q4_priority_counts = EmptyMap

Q4OrdersStages == {"orders_columns", "orders_rows", "sort", "printed"}

\* C15: a failing Open, OpenFile or ReadTable ends the run at that point: no
\* later stage runs, no result row is emitted and the exit code is not 0; the
\* exit code is 0 exactly when both tables were loaded and the result printed.
C15_LoadFailureEndsRunNonZero ==
    /\ q4_lineitem_file.status # "ok" =>
          /\ q4_pc \in {"load_lineitem", "exited"}
          /\ q4_rows_scanned = 0 /\ q4_sorted_results = <<>>
          /\ (q4_pc = "exited" => q4_exit = ExitFailure)
    /\ q4_orders_file.status # "ok" =>
          /\ q4_pc \notin Q4OrdersStages
          /\ q4_sorted_results = <<>>
          /\ (q4_pc = "exited" => q4_exit # ExitSuccess)
    /\ Q4Ended =>
          (q4_exit = ExitSuccess <=>
              (/\ q4_lineitem_file.status = "ok"
               /\ q4_orders_file.status = "ok"
               /\ q4_pc = "printed"))

C15_Witness ==
    /\ q4_pc = "exited" /\ q4_exit = ExitFailure
    /\ q4_lineitem_file.status = "ok" /\ q4_orders_file.status = "read_fails"
    /\ qualifying_orderkeys # {}

(***************************************************************************)
(* Properties of the stages of query1.                                     *)
(***************************************************************************)
\* the stage of each control point: the row loop scans, filters and
\* aggregates one row per iteration
Q1StageRank ==
    [pc \in {"idle", "load", "chunks", "rows", "finalized", "done", "failed"} |->
        CASE pc \in {"idle", "load"} -> 0
          [] pc \in {"chunks", "rows"} -> 1
          [] pc = "finalized" -> 2
          [] pc = "done" -> 3
          [] pc = "failed" -> 4]

Q9Indices ==
    <<green_parts, nation_map, supplier_nation_map, partsupp_cost_map, order_year_map>>

Q9Probing == q9_pc \in {"lineitem", "rows", "done"}

\* C17: every index is built before the lineitem rows probe it, and from the
\* first probe on no entry of an index is inserted or changed.
C17_IndexFrozenOnceProbed ==
    [][Q9Probing => Q9Indices' = Q9Indices]_vars

(***************************************************************************)
(* Properties of query6.                                                   *)
(***************************************************************************)
\* the decimal value of a slot of column c
Q6Value(row, c) == Norm(row[c], Pow10(q6_types[c].scale))

\* the row of the example: 1994-03-01, quantity 10, price 1000, discount 0.06
Q6Example == Q6Row(8825, 1000, 100000, 6, {})

Q6Qualifies(row) ==
    /\ row.nulls \cap Q6NullChecked = {}
    /\ row.l_shipdate >= Q6StartDate /\ row.l_shipdate < Q6EndDate
    /\ RLeq(<<5, 100>>, Q6Value(row, "l_discount"))
    /\ RLeq(Q6Value(row, "l_discount"), <<7, 100>>)
    /\ RLt(Q6Value(row, "l_quantity"), <<24, 1>>)

Q6AllScaleTwo == \A c \in Q6Columns : q6_types[c].scale = 2

\* C18: a row adds price*discount to the revenue and 1 to rows_qualified
\* exactly when its four columns are non-null, its ship date is in
\* [1994-01-01, 1995-01-01), its discount in [0.05, 0.07] and its quantity
\* below 24; the example row adds 60, the discounts 0.05 and 0.07 qualify,
\* the quantity 24 and the ship date 1995-01-01 do not.
C18_RowQualifiesExactlyOnPredicate ==
    [][q6_rows_processed' = q6_rows_processed + 1 =>
          /\ IF Q6Qualifies(q6_row')
             THEN /\ total_revenue' =
                        RAdd(total_revenue,
                             RMul(Q6Value(q6_row', "l_extendedprice"),
                                  Q6Value(q6_row', "l_discount")))
                  /\ q6_rows_qualified' = q6_rows_qualified + 1
             ELSE UNCHANGED <<total_revenue, q6_rows_qualified>>
          /\ Q6AllScaleTwo =>
                /\ q6_row' = Q6Example =>
                      total_revenue' = RAdd(total_revenue, <<60, 1>>)
                /\ q6_row' \in {Q6Row(8825, 1000, 100000, 5, {}),
                                Q6Row(8825, 1000, 100000, 7, {})} =>
                      q6_rows_qualified' = q6_rows_qualified + 1
                /\ q6_row' \in {Q6Row(8825, 2400, 100000, 6, {}),
                                Q6Row(Q6EndDate, 1000, 100000, 6, {})} =>
                      q6_rows_qualified' = q6_rows_qualified]_vars

\* C19: a row whose ship date is outside the range is rejected by the first
\* conjunct: none of its decimals is decoded and no state of the evaluation
\* other than the count of rows seen changes.
C19_DateMissDecodesNothing ==
    [][(/\ q6_rows_processed' = q6_rows_processed + 1
        /\ q6_row'.nulls \cap Q6NullChecked = {}
        /\ ~(q6_row'.l_shipdate >= Q6StartDate /\ q6_row'.l_shipdate < Q6EndDate))
          => /\ q6_decodes' = q6_decodes
             /\ UNCHANGED <<total_revenue, q6_rows_qualified>>]_vars

(***************************************************************************)
(* The inputs of the kernels.                                              *)
(***************************************************************************)
\* the columns whose raw values check_late_delivery_rvv receives
Q4KernelColumns == {"l_commitdate", "l_receiptdate"}

\* C20: every element a kernel reads comes from a row in which the kernel's
\* input columns are non-null; here for check_late_delivery_rvv of
\* rvv_query4, at each index inside the chunk it is given.
C20_KernelInputsAreNonNull ==
    [][(/\ rvv4_pc = "mask"
        /\ rvv4_i' = rvv4_i + 1
        /\ rvv4_i < Len(rvv4_lineitem[1]))
          => rvv4_lineitem[1][rvv4_i + 1].nulls \cap Q4KernelColumns = {}]_vars

(***************************************************************************)
(* The data-parallel query 4 against the scalar query 4.                    *)
(***************************************************************************)
\* the loop of query4 over the lineitem rows
RECURSIVE Q4ScalarKeys(_, _)
Q4ScalarKeys(keys, rows) ==
    IF rows = <<>> THEN keys
    ELSE Q4ScalarKeys(QualifyingKeyStep(keys, Head(rows)), Tail(rows))

\* the loop of query4 over the orders rows
RECURSIVE Q4ScalarCounts(_, _, _)
Q4ScalarCounts(counts, keys, rows) ==
    IF rows = <<>> THEN counts
    ELSE Q4ScalarCounts(Q4PriorityStep(counts, keys, Head(rows)), keys, Tail(rows))

\* the priority counts of query4 for two tables
Q4ScalarResult(orders, lineitem) ==
    Q4ScalarCounts(EmptyMap, Q4ScalarKeys({}, Flatten(lineitem)), Flatten(orders))

\* C21: for every pair of tables rvv_query4 ends with the priorities and the
\* counts that query4 computes from the same tables.
C21_RvvQuery4MatchesScalar ==
    rvv4_pc = "done" =>
        priority_counts = Q4ScalarResult(rvv4_orders, rvv4_lineitem)

(***************************************************************************)
(* Properties of the batches of rvv_query9.                                *)
(***************************************************************************)
\* the addends of all groups
RECURSIVE B9Addends(_, _)
B9Addends(profit, keys) ==
    IF keys = {} THEN <<>>
    ELSE LET k == CHOOSE x \in keys : TRUE
         IN  profit[k] \o B9Addends(profit, keys \ {k})

B9AllAddends == B9Addends(b9_profit, DOMAIN b9_profit)

\* C22: every qualifying row adds its profit once, to the group of its
\* nation and year: a row is in the batch or among the addends, never twice;
\* the batch and the index lists are empty at the start of a chunk, every
\* stored index is below the batch length, a batch never stays at BATCH_SIZE
\* rows, and after a chunk nothing is left in the batch.
C22_EachRowFlushedOnceToItsGroup ==
    /\ Len(b9_batch) + Len(B9AllAddends) = b9_rows_qualified
    /\ \A i, j \in DOMAIN B9AllAddends :
          i # j => B9AllAddends[i].n # B9AllAddends[j].n
    /\ \A i \in DOMAIN B9AllAddends, j \in DOMAIN b9_batch :
          B9AllAddends[i].n # b9_batch[j].n
    /\ \A k \in DOMAIN b9_profit : \A i \in DOMAIN b9_profit[k] :
          k = <<B9NationName(b9_profit[k][i].nationkey), b9_profit[k][i].year>>
    /\ \A k \in DOMAIN nation_year_indices : \A i \in DOMAIN nation_year_indices[k] :
          /\ nation_year_indices[k][i] < Len(b9_batch)
          /\ b9_batch[nation_year_indices[k][i] + 1].nationkey = k[1]
          /\ b9_batch[nation_year_indices[k][i] + 1].year = k[2]
    /\ Len(b9_batch) < BATCH_SIZE
    /\ b9_pc \in {"chunks", "done"} =>
          /\ b9_batch = <<>> /\ nation_year_indices = EmptyMap
          /\ Len(B9AllAddends) = b9_rows_qualified

\* three qualifying rows of one chunk: a full batch and a remainder
C22_Witness ==
    /\ b9_pc = "done"
    /\ b9_chunk_idx = 1 /\ b9_num_rows = 3
    /\ b9_rows_qualified = 3
    /\ Len(B9AllAddends) = 3
    /\ Cardinality(DOMAIN b9_profit) = 2

(***************************************************************************)
(* Reads of a table of more than one chunk.                                *)
(***************************************************************************)
\* C23: no row index greater than or equal to the length of a chunk is read
\* from that chunk; here for the loops of rvv_query4 over the lineitem rows
\* and over the filtered orders, which read chunk(0).
C23_NoReadPastChunkEnd ==
    [][/\ (rvv4_pc \in {"mask", "keys"} /\ rvv4_i' = rvv4_i + 1)
            => rvv4_i < Len(rvv4_lineitem[1])
       /\ (rvv4_pc = "orders" /\ rvv4_i' = rvv4_i + 1)
            => rvv4_i < Len(filtered_orders[1])]_vars

(***************************************************************************)
(* The projection of query9.                                               *)
(***************************************************************************)
\* the positions of the result rows of group k
Q9RowsOf(k) == {i \in DOMAIN q9_results : Q9KeyOf(q9_results[i]) = k}

\* C24: the emitted rows are a permutation of the finalized groups: one row
\* for each group key and none besides, each with the group's sum, and the
\* step that builds and sorts them changes no group.
C24_ProjectionIsPermutationOfGroups ==
    /\ [](q9_pc = "done" =>
             /\ \A k \in DOMAIN profit_by_nation_year :
                   /\ Cardinality(Q9RowsOf(k)) = 1
                   /\ \A i \in Q9RowsOf(k) :
                         q9_results[i].sum_profit = profit_by_nation_year[k]
             /\ \A i \in DOMAIN q9_results :
                   Q9KeyOf(q9_results[i]) \in DOMAIN profit_by_nation_year)
    /\ [][q9_pc' = "done" =>
             profit_by_nation_year' = profit_by_nation_year]_vars

\* two groups of FRANCE with different sums, emitted as two rows
C24_Witness ==
    /\ q9_pc = "done"
    /\ DOMAIN profit_by_nation_year = {FR95, FR96}
    /\ profit_by_nation_year[FR95] # profit_by_nation_year[FR96]
    /\ Len(q9_results) = 2
    /\ q9_results[1].sum_profit = profit_by_nation_year[FR96]

(***************************************************************************)
(* Properties of date_string_to_days.                                      *)
(***************************************************************************)
\* C25: date_string_to_days gives the whole days from 1970-01-01 to the
\* date, whatever the offset of the local time zone, that is the date32
\* value the data-parallel programs parse from the same string.
C25_DaysIndependentOfTimeZone ==
    date_pc = "done" => date_out = ParseDate32(date_str)

(***************************************************************************)
(* Properties of the strip-mined loop.                                     *)
(***************************************************************************)
\* C26: the loop ends for every n and every hardware vector length; it
\* loads and stores each index below n exactly once and nothing at an index
\* from n on; for n = 0 nothing is loaded or stored.
C26_StripLoopCoversEachIndexOnce ==
    /\ <>(sm_pc = "done")
    /\ [](\A k \in StripIndices :
             /\ sm_loads[k] = sm_stores[k]
             /\ sm_loads[k] = (IF k <= sm_i /\ k <= sm_n THEN 1 ELSE 0))
    /\ [](sm_pc = "done" => sm_i = sm_n)

\* five elements on a hardware of vector length 2, with a last strip of one
C26_Witness ==
    /\ sm_pc = "done"
    /\ sm_n = 5 /\ sm_vlmax = 2 /\ sm_vl = 1
    /\ \A k \in 1..5 : sm_stores[k] = 1

(***************************************************************************)
(* Properties of the bit mask kernels.                                     *)
(***************************************************************************)
\* what the kernel of the run is to test at index idx (from 0)
MaskCondition(idx) ==
    /\ mk_commitdate[idx + 1] < mk_receiptdate[idx + 1]
    /\ mk_kernel = "shipping" =>
          /\ mk_shipdate[idx + 1] < mk_commitdate[idx + 1]
          /\ Q12StartDate <= mk_receiptdate[idx + 1]
          /\ mk_receiptdate[idx + 1] < Q12EndDate

MaskBits == 0..(Len(mk_results) * ByteBits - 1)

\* C27: on a zeroed buffer each kernel sets bit idx mod 8 of byte idx div 8
\* exactly for the indices below length whose dates pass its test; it sets
\* no padding bit, writes no byte behind the buffer and clears no bit.
C27_MaskBitSetExactlyOnCondition ==
    /\ [](\A idx \in MaskBits :
             TestBit(mk_results, idx) <=>
                (idx < mk_i /\ idx < mk_length /\ MaskCondition(idx)))
    /\ [](mk_pc = "done" => mk_i = mk_length)
    /\ [][\A idx \in MaskBits : TestBit(mk_results, idx) => TestBit(mk_results', idx)]_vars

\* ten elements that all pass: eight bits of byte 0 and two of byte 1
C27_Witness ==
    /\ mk_pc = "done" /\ mk_kernel = "shipping"
    /\ mk_length = 10
    /\ mk_results = <<255, 3, 0>>

(***************************************************************************)
(* Query 4 as an existence join.                                           *)
(***************************************************************************)
\* a lineitem row that makes its order late
Q4LateLine(row) ==
    /\ row.nulls \cap Q4LineitemColumns = {}
    /\ row.l_commitdate < row.l_receiptdate

\* the positions of the orders rows that are to be counted
Q4CountedOrders(orders, lineitem) ==
    {i \in DOMAIN orders :
        /\ orders[i].nulls \cap Q4OrdersColumns = {}
        /\ orders[i].o_orderdate >= Q4StartDate /\ orders[i].o_orderdate < Q4EndDate
        /\ \E j \in DOMAIN lineitem :
              Q4LateLine(lineitem[j]) /\ lineitem[j].l_orderkey = orders[i].o_orderkey}

\* the count of a priority in a map of counts
Q4CountOf(counts, p) == IF p \in DOMAIN counts THEN counts[p] ELSE 0

Q4SemiJoin(counts, orders, lineitem) ==
    /\ \A p \in DOMAIN counts \cup {orders[i].o_orderpriority : i \in DOMAIN orders} :
          Q4CountOf(counts, p) =
             Cardinality({i \in Q4CountedOrders(orders, lineitem) :
                             orders[i].o_orderpriority = p})
    /\ \A p \in DOMAIN counts : counts[p] >= 1

\* C28: an orders row adds 1 to the count of its priority exactly when it has
\* no null, its order date is in [1993-07-01, 1993-10-01) and some lineitem
\* row of its key has non-null commit and receipt dates with
\* commitdate < receiptdate; it is counted once however many such rows there
\* are.  Here for the counts rvv_query4 ends with.
C28_CountsAreSemiJoin ==
    rvv4_pc = "done" =>
        Q4SemiJoin(priority_counts, Flatten(rvv4_orders), Flatten(rvv4_lineitem))

(***************************************************************************)
(* The counters of query12.                                                *)
(***************************************************************************)
RECURSIVE Q12LineCount(_, _)
Q12LineCount(m, keys) ==
    IF keys = {} THEN 0
    ELSE LET k == CHOOSE x \in keys : TRUE
         IN  m[k].high_line_count + m[k].low_line_count + Q12LineCount(m, keys \ {k})

\* the two counts of a ship mode, zero when it has no group
Q12Counts(m, sm) ==
    IF sm \in DOMAIN m THEN <<m[sm].high_line_count, m[sm].low_line_count>>
    ELSE <<0, 0>>

\* C29: the groups are those of MAIL and SHIP only, their counts add up to
\* rows_qualified, which is at most rows_processed, and a qualifying row
\* adds one to high_line_count of its ship mode when the priority of its
\* order is 1-URGENT or 2-HIGH and one to low_line_count otherwise, never to
\* both and to no other group.
C29_LineCountsAddUp ==
    /\ [](/\ DOMAIN results_by_shipmode \subseteq {"MAIL", "SHIP"}
          /\ Q12LineCount(results_by_shipmode, DOMAIN results_by_shipmode)
                = q12_rows_qualified
          /\ q12_rows_qualified <= q12_rows_processed)
    /\ [][IF q12_rows_qualified' = q12_rows_qualified + 1
          THEN LET sm == q12_row'.l_shipmode
                   pr == order_priorities[q12_row'.l_orderkey]
                   old == Q12Counts(results_by_shipmode, sm)
               IN  /\ Q12Counts(results_by_shipmode', sm) =
                         (IF pr \in {"1-URGENT", "2-HIGH"}
                          THEN <<old[1] + 1, old[2]>> ELSE <<old[1], old[2] + 1>>)
                   /\ \A o \in {"MAIL", "SHIP"} \ {sm} :
                         Q12Counts(results_by_shipmode', o)
                            = Q12Counts(results_by_shipmode, o)
          ELSE results_by_shipmode' = results_by_shipmode]_vars

\* a high line and a low line of MAIL and a line of SHIP
C29_Witness ==
    /\ q12_rows_qualified = 3
    /\ DOMAIN results_by_shipmode = {"MAIL", "SHIP"}
    /\ results_by_shipmode["MAIL"].high_line_count = 1
    /\ results_by_shipmode["MAIL"].low_line_count = 1

(***************************************************************************)
(* The counters of query1.                                                 *)
(***************************************************************************)
RECURSIVE Q1CountOrders(_, _)
Q1CountOrders(m, keys) ==
    IF keys = {} THEN 0
    ELSE LET k == CHOOSE x \in keys : TRUE
         IN  m[k].count_order + Q1CountOrders(m, keys \ {k})

\* C30: the counts of the groups add up to rows_accepted, which is at most
\* rows_processed, every group of the map has a count of at least 1, and a
\* row whose ship date is null or later than 1998-09-02 changes no group and
\* not the number of accepted rows.
C30_GroupCountsAddUp ==
    /\ [](/\ Q1CountOrders(groups, DOMAIN groups) = rows_accepted
          /\ rows_accepted <= q1_rows_processed
          /\ \A k \in DOMAIN groups : groups[k].count_order >= 1)
    /\ [][(/\ q1_rows_processed' = q1_rows_processed + 1
           /\ \/ "l_shipdate" \in q1_row'.nulls
              \/ q1_row'.l_shipdate > CutoffDays)
             => /\ groups' = groups
                /\ rows_accepted' = rows_accepted]_vars

\* two rows accepted into one group, then a row of 1998-09-03 rejected
C30_Witness ==
    /\ q1_rows_processed = 3 /\ rows_accepted = 2
    /\ q1_row.l_shipdate = CutoffDays + 1
    /\ <<"A", "F">> \in DOMAIN groups
    /\ groups[<<"A", "F">>].count_order = 2

(***************************************************************************)
(* One specification per program; the other programs' variables rest.      *)
(* The programs that call date_string_to_days run in one of the zones of   *)
(* LocalZones.                                                             *)
(***************************************************************************)
InitDec == DecInit /\ Q9Idle /\ Q1Idle /\ RVV1Idle /\ RVV4Idle /\ Q12Idle /\ BPIdle /\ RedIdle /\ Q4Idle /\ Q6Idle /\ B9Idle /\ DateIdle /\ StripIdle /\ MaskIdle
InitQ9 == Q9Init /\ DecInit /\ Q1Idle /\ RVV1Idle /\ RVV4Idle /\ Q12Idle /\ BPIdle /\ RedIdle /\ Q4Idle /\ Q6Idle /\ B9Idle /\ DateIdle /\ StripIdle /\ MaskIdle
InitQ1 == Q1Init /\ DecInit /\ Q9Idle /\ RVV1Idle /\ RVV4Idle /\ Q12Idle /\ BPIdle /\ RedIdle /\ Q4Idle /\ Q6Idle /\ B9Idle /\ DateZone /\ StripIdle /\ MaskIdle
InitQ1RVV == RVV1Init /\ DecInit /\ Q9Idle /\ Q1Idle /\ RVV4Idle /\ Q12Idle /\ BPIdle /\ RedIdle /\ Q4Idle /\ Q6Idle /\ B9Idle /\ DateIdle /\ StripIdle /\ MaskIdle
InitQ4RVV == RVV4Init /\ DecInit /\ Q9Idle /\ Q1Idle /\ RVV1Idle /\ Q12Idle /\ BPIdle /\ RedIdle /\ Q4Idle /\ Q6Idle /\ B9Idle /\ DateIdle /\ StripIdle /\ MaskIdle
InitQ12 == Q12Init /\ DecInit /\ Q9Idle /\ Q1Idle /\ RVV1Idle /\ RVV4Idle /\ BPIdle /\ RedIdle /\ Q4Idle /\ Q6Idle /\ B9Idle /\ DateZone /\ StripIdle /\ MaskIdle
InitBP == BPInit /\ DecInit /\ Q9Idle /\ Q1Idle /\ RVV1Idle /\ RVV4Idle /\ Q12Idle /\ RedIdle /\ Q4Idle /\ Q6Idle /\ B9Idle /\ DateIdle /\ StripIdle /\ MaskIdle
InitRed == RedInit /\ DecInit /\ Q9Idle /\ Q1Idle /\ RVV1Idle /\ RVV4Idle /\ Q12Idle /\ BPIdle /\ Q4Idle /\ Q6Idle /\ B9Idle /\ DateIdle /\ StripIdle /\ MaskIdle
InitQ4 == Q4Init /\ DecInit /\ Q9Idle /\ Q1Idle /\ RVV1Idle /\ RVV4Idle /\ Q12Idle /\ BPIdle /\ RedIdle /\ Q6Idle /\ B9Idle /\ DateZone /\ StripIdle /\ MaskIdle
InitQ6 == Q6Init /\ DecInit /\ Q9Idle /\ Q1Idle /\ RVV1Idle /\ RVV4Idle /\ Q12Idle /\ BPIdle /\ RedIdle /\ Q4Idle /\ B9Idle /\ DateZone /\ StripIdle /\ MaskIdle
InitB9 == B9Init /\ DecInit /\ Q9Idle /\ Q1Idle /\ RVV1Idle /\ RVV4Idle /\ Q12Idle /\ BPIdle /\ RedIdle /\ Q4Idle /\ Q6Idle /\ DateIdle /\ StripIdle /\ MaskIdle
InitDate == DateInit /\ DecInit /\ Q9Idle /\ Q1Idle /\ RVV1Idle /\ RVV4Idle /\ Q12Idle /\ BPIdle /\ RedIdle /\ Q4Idle /\ Q6Idle /\ B9Idle /\ StripIdle /\ MaskIdle
InitStrip == StripInit /\ DecInit /\ Q9Idle /\ Q1Idle /\ RVV1Idle /\ RVV4Idle /\ Q12Idle /\ BPIdle /\ RedIdle /\ Q4Idle /\ Q6Idle /\ B9Idle /\ DateIdle /\ MaskIdle
InitMask == MaskInit /\ DecInit /\ Q9Idle /\ Q1Idle /\ RVV1Idle /\ RVV4Idle /\ Q12Idle /\ BPIdle /\ RedIdle /\ Q4Idle /\ Q6Idle /\ B9Idle /\ DateIdle /\ StripIdle

SpecDec == InitDec /\ [][DecNext]_vars

SpecQ9 == InitQ9 /\ [][Q9Next]_vars

SpecQ1 == InitQ1 /\ [][Q1Next]_vars

SpecQ1RVV == InitQ1RVV /\ [][RVV1Next]_vars

SpecQ4RVV == InitQ4RVV /\ [][RVV4Next]_vars

SpecQ12 == InitQ12 /\ [][Q12Next]_vars

SpecBP == InitBP /\ [][BPNext]_vars

SpecRed == InitRed /\ [][RedNext]_vars

SpecQ4 == InitQ4 /\ [][Q4Next]_vars

SpecQ6 == InitQ6 /\ [][Q6Next]_vars

SpecB9 == InitB9 /\ [][B9Next]_vars

SpecDate == InitDate /\ [][DateNext]_vars

\* the kernel runs: an iteration or the exit that is possible is taken
SpecStrip == InitStrip /\ [][StripNext]_vars /\ WF_vars(StripNext)

SpecMask == InitMask /\ [][MaskNext]_vars

\* C1: the decoder returns r / 10^s for every signed 128-bit r; a negative r
\* decodes to a negative value, never to zero or to a positive value.
C1_DecodeIsSignedValue ==
    dec_pc = "done" =>
        /\ dec_out.raw = DoubleOfInt(dec_raw)
        /\ dec_out.scale = dec_scale
        /\ (dec_raw < 0 => dec_out.raw.neg /\ dec_out.raw.mag # <<>>)

====
